---- MODULE Spec2Model ----
(***************************************************************************)
(* A model of the Perl to Python converter of                              *)
(* src/src/perl2python/converter.py (class PerlToPythonConverter).         *)
(*                                                                         *)
(* Texts are TLA+ strings; an offset is a Python offset (0-based), so the  *)
(* character at offset p of s is SubSeq(s, p + 1, p + 1) and the Python    *)
(* slice s[a:b] is SubSeq(s, a + 1, b).  The regular expressions of the    *)
(* source are transcribed one by one into syntax trees and matched by a    *)
(* backtracking matcher with the priorities of Python's re module          *)
(* (leftmost match; greedy and lazy repetition; ordered alternation).      *)
(***************************************************************************)
EXTENDS Integers, Sequences, FiniteSets, TLC

VARIABLES
    pc,             \* position of the conversion in progress
    perl_code,      \* convert_code / _parse_perl_code: the text being converted
    config,         \* self.config
    elements,       \* _parse_perl_code: the list of elements
    python_code,    \* convert_code: the generated text
    perl_body,      \* _basic_perl_to_python_conversion: the body being rewritten
    todo,           \* the lines of perl_body.strip().split('\n') not yet processed
    lines,          \* the lines emitted so far
    current_indent, \* the rewriter's current_indent
    indent_stack,   \* the rewriter's indent_stack
    last,           \* what the last step did: the rule, the line, pushes and pops
    post_process,   \* the post-processing hook: absent, or what a call of it does
    hook_args,      \* the texts the hook was called with, in order
    run,            \* a run of the generated statements: its arguments and its outcome
    fs,             \* the file system: the directories and the files with their text
    batch,          \* cli.process_directory: its frames, its counts, what it attempted
    environ,        \* os.environ
    calls,          \* the calls of convert_code made on the instance, with their results
    perl_builtins_map,  \* self.perl_builtins_map
    file_args,      \* convert_file: perl_file_path and output_file_path of the call
    exception,      \* the exception the call in progress has raised, "" for none
    int_max_str_digits, \* the interpreter: sys.get_int_max_str_digits(), 0 for no limit
    generated       \* _generate_python_code: how many bodies it has given to the rewriter

\* what no step of convert_code assigns: the file system, the state of the
\* command line, the environment, the record of the calls, the builtins map,
\* the arguments and the exception of a call of convert_file, the limit of
\* the interpreter and the progress of a generation followed body by body
outside ==
    <<fs, batch, environ, calls, perl_builtins_map, file_args, exception,
      int_max_str_digits, generated>>

\* what only a generation that is followed body by body assigns
generation == <<int_max_str_digits, generated>>

vars == <<pc, perl_code, config, elements, python_code, perl_body, todo, lines,
          current_indent, indent_stack, last, post_process, hook_args, run, outside>>

---------------------------------------------------------------------------
(* Strings, as Python's str methods compute them.                          *)

CharSet(s) == {SubSeq(s, i, i) : i \in 1..Len(s)}

Lower == CharSet("abcdefghijklmnopqrstuvwxyz")
Upper == CharSet("ABCDEFGHIJKLMNOPQRSTUVWXYZ")
Digit == CharSet("0123456789")
\* \w of Python's re on the ASCII texts of the model
WordChar == Lower \cup Upper \cup Digit \cup {"_"}
\* \s of Python's re, also the characters str.strip() removes
Whitespace == {" ", "\t", "\n", "\r", "\f"}

\* s[p]
At(s, p) == SubSeq(s, p + 1, p + 1)

\* s[a:b] for 0 <= a and 0 <= b
Slice(s, a, b) == SubSeq(s, a + 1, IF b > Len(s) THEN Len(s) ELSE b)

\* s[a:]
SliceFrom(s, a) == SubSeq(s, a + 1, Len(s))

\* s.startswith(lit, p)
StartsWithAt(s, p, lit) ==
    /\ p + Len(lit) <= Len(s)
    /\ SubSeq(s, p + 1, p + Len(lit)) = lit

\* the least and the greatest number of a non-empty finite set
Min(S) == CHOOSE x \in S : \A y \in S : x <= y
Max(S) == CHOOSE x \in S : \A y \in S : y <= x

\* s.find(lit, from): the first offset >= from at which lit occurs, or -1
Find(s, lit, from) ==
    IF \E p \in from..(Len(s) - Len(lit)) : StartsWithAt(s, p, lit)
    THEN CHOOSE p \in from..(Len(s) - Len(lit)) :
             /\ StartsWithAt(s, p, lit)
             /\ \A q \in from..(p - 1) : ~StartsWithAt(s, q, lit)
    ELSE -1

\* lit in s
Contains(s, lit) == Find(s, lit, 0) >= 0

RECURSIVE Replace(_, _, _)
\* s.replace(old, new), old non-empty: every occurrence, left to right
Replace(s, old, new) ==
    LET k == Find(s, old, 0) IN
    IF k < 0 THEN s
    ELSE Slice(s, 0, k) \o new \o Replace(SliceFrom(s, k + Len(old)), old, new)

\* s.lstrip(chars): from the first character that is not in chars
LStripOf(s, cs) ==
    SliceFrom(s, Min({i \in 0..Len(s) : i = Len(s) \/ At(s, i) \notin cs}))

\* s.rstrip(chars): up to the last character that is not in chars
RStripOf(s, cs) ==
    Slice(s, 0, Max({i \in 0..Len(s) : i = 0 \/ At(s, i - 1) \notin cs}))

\* s.strip()
Strip(s) == LStripOf(RStripOf(s, Whitespace), Whitespace)

RECURSIVE Split(_, _)
\* s.split(sep) for a one-character sep: always at least one piece
Split(s, sep) ==
    LET k == Find(s, sep, 0) IN
    IF k < 0 THEN <<s>>
    ELSE <<Slice(s, 0, k)>> \o Split(SliceFrom(s, k + 1), sep)

RECURSIVE Join(_, _)
\* sep.join(parts)
Join(parts, sep) ==
    IF Len(parts) = 0 THEN ""
    ELSE IF Len(parts) = 1 THEN parts[1]
    ELSE parts[1] \o sep \o Join(Tail(parts), sep)

RECURSIVE Spaces(_)
\* ' ' * n
Spaces(n) ==
    IF n <= 0 THEN ""
    ELSE IF n % 2 = 1 THEN " " \o Spaces(n - 1)
    ELSE LET half == Spaces(n \div 2) IN half \o half

\* the number of leading spaces of a line
LeadingSpaces(s) == Len(s) - Len(LStripOf(s, {" "}))

---------------------------------------------------------------------------
(* Regular expressions: syntax trees and the matcher of Python's re.       *)

Lit(s)      == [t |-> "lit", s |-> s]                    \* literal text
In(cs)      == [t |-> "set", cs |-> cs]                  \* [...]
NotIn(cs)   == [t |-> "nset", cs |-> cs]                 \* [^...]
Dot         == NotIn({"\n"})                             \* .
Sp          == In(Whitespace)                            \* \s
Wd          == In(WordChar)                              \* \w
Dg          == In(Digit)                                 \* \d
Star(r)     == [t |-> "rep", r |-> r, min |-> 0, lazy |-> FALSE]   \* r*
Plus(r)     == [t |-> "rep", r |-> r, min |-> 1, lazy |-> FALSE]   \* r+
LazyStar(r) == [t |-> "rep", r |-> r, min |-> 0, lazy |-> TRUE]    \* r*?
LazyPlus(r) == [t |-> "rep", r |-> r, min |-> 1, lazy |-> TRUE]    \* r+?
Opt(r)      == [t |-> "opt", r |-> r]                    \* r?
Alt(rs)     == [t |-> "alt", rs |-> rs]                  \* a|b|...
Cat(rs)     == [t |-> "seq", rs |-> rs]                  \* ab...
Grp(n, r)   == [t |-> "grp", n |-> n, r |-> r]           \* (r), group n
WordB       == [t |-> "wb"]                              \* \b
Bos         == [t |-> "bos"]                             \* ^ (no MULTILINE)

NoMatch == [ok |-> FALSE, s |-> 0, e |-> 0, caps |-> <<>>]
\* a group that did not take part in the match
Unset == <<-1, -1>>
\* the source's patterns have at most four groups
NoCaps == <<Unset, Unset, Unset, Unset>>

IsWordAt(text, p) == p >= 0 /\ p < Len(text) /\ At(text, p) \in WordChar

\* does the character at offset p belong to the class r ([...] or [^...])
ClassHas(r, text, p) ==
    p < Len(text) /\ ((At(text, p) \in r.cs) <=> (r.t = "set"))

\* the number of consecutive characters of the class r from offset p on
RunLength(r, text, p) ==
    Min({n \in 0..(Len(text) - p) : ~ClassHas(r, text, p + n)})

RECURSIVE M(_, _, _, _)
RECURSIVE Backtrack(_, _, _, _, _, _, _)
\* Match the sequence of nodes rs at offset p of text: the first match in
\* the order a backtracking matcher finds them, or NoMatch.
M(text, rs, p, caps) ==
    IF Len(rs) = 0 THEN [ok |-> TRUE, s |-> 0, e |-> p, caps |-> caps]
    ELSE
    LET r == rs[1]
        rest == Tail(rs)
    IN
    CASE r.t = "lit" ->
           IF StartsWithAt(text, p, r.s) THEN M(text, rest, p + Len(r.s), caps)
           ELSE NoMatch
      [] r.t = "set" ->
           IF p < Len(text) /\ At(text, p) \in r.cs THEN M(text, rest, p + 1, caps)
           ELSE NoMatch
      [] r.t = "nset" ->
           IF p < Len(text) /\ At(text, p) \notin r.cs THEN M(text, rest, p + 1, caps)
           ELSE NoMatch
      [] r.t = "rep" /\ r.r.t \in {"set", "nset"} ->
           \* a repeated character class: the greedy form takes the whole run
           \* and gives back one character at a time, the lazy form takes the
           \* minimum and adds one at a time
           LET n == RunLength(r.r, text, p) IN
           IF n < r.min THEN NoMatch
           ELSE IF r.lazy THEN Backtrack(text, rest, p, caps, r.min, n, 1)
           ELSE Backtrack(text, rest, p, caps, n, r.min, -1)
      [] r.t = "rep" /\ r.r.t \notin {"set", "nset"} ->
           IF r.min > 0
           THEN M(text, <<r.r, [r EXCEPT !.min = 0]>> \o rest, p, caps)
           ELSE LET more == M(text, <<r.r, [t |-> "adv", from |-> p], r>> \o rest, p, caps)
                    stop == M(text, rest, p, caps)
                IN IF r.lazy
                   THEN (IF stop.ok THEN stop ELSE more)
                   ELSE (IF more.ok THEN more ELSE stop)
      [] r.t = "adv" ->
           IF p > r.from THEN M(text, rest, p, caps) ELSE NoMatch
      [] r.t = "opt" ->
           LET with == M(text, <<r.r>> \o rest, p, caps) IN
           IF with.ok THEN with ELSE M(text, rest, p, caps)
      [] r.t = "alt" ->
           IF Len(r.rs) = 0 THEN NoMatch
           ELSE LET first == M(text, <<r.rs[1]>> \o rest, p, caps) IN
                IF first.ok THEN first
                ELSE M(text, <<Alt(Tail(r.rs))>> \o rest, p, caps)
      [] r.t = "seq" -> M(text, r.rs \o rest, p, caps)
      [] r.t = "grp" ->
           M(text, <<r.r, [t |-> "end", n |-> r.n, from |-> p]>> \o rest, p, caps)
      [] r.t = "end" ->
           M(text, rest, p, [caps EXCEPT ![r.n] = <<r.from, p>>])
      [] r.t = "wb" ->
           IF IsWordAt(text, p - 1) # IsWordAt(text, p) THEN M(text, rest, p, caps)
           ELSE NoMatch
      [] r.t = "bos" ->
           IF p = 0 THEN M(text, rest, p, caps) ELSE NoMatch

\* Match rs after k characters of a repeated class, then after k + step, up
\* to k = stop: the first of these that matches.
Backtrack(text, rs, p, caps, k, stop, step) ==
    LET m == M(text, rs, p + k, caps) IN
    IF m.ok \/ k = stop THEN m
    ELSE Backtrack(text, rs, p, caps, k + step, stop, step)

\* re.match(re, text) at offset p
MatchAt(re, text, p) == [M(text, <<re>>, p, NoCaps) EXCEPT !.s = p]

\* the leftmost of the matches ms, one tried at each offset
LeftMost(ms) ==
    IF \A m \in ms : ~m.ok THEN NoMatch
    ELSE CHOOSE m \in ms : m.ok /\ \A n \in ms : n.ok => m.s <= n.s

\* pattern.search(text, from): the leftmost match starting at or after from
SearchFrom(re, text, from) == LeftMost({MatchAt(re, text, p) : p \in from..Len(text)})

\* re.search(re, text)
Search(re, text) == SearchFrom(re, text, 0)

\* match.group(n); '' for a group that did not take part
Group(text, m, n) ==
    IF m.caps[n] = Unset THEN "" ELSE Slice(text, m.caps[n][1], m.caps[n][2])

\* match.group(n) is not None
HasGroup(m, n) == m.caps[n] # Unset

\* where the search goes on after the match m (the source's patterns match no
\* empty text; after an empty match the search would go on one further)
NextFrom(m) == IF m.e > m.s THEN m.e ELSE m.e + 1

RECURSIVE FindIterFrom(_, _, _)
RECURSIVE MatchAndRest(_, _, _)
\* re.finditer(re, text): the non-overlapping matches, left to right
FindIterFrom(re, text, from) == MatchAndRest(re, text, SearchFrom(re, text, from))

\* the match m, if it is one, and the matches after it
MatchAndRest(re, text, m) ==
    IF ~m.ok THEN <<>> ELSE <<m>> \o FindIterFrom(re, text, NextFrom(m))

FindIter(re, text) == FindIterFrom(re, text, 0)

\* A replacement template is a sequence of literal pieces and group references.
T(s) == [g |-> 0, s |-> s]
G(n) == [g |-> n, s |-> ""]

RECURSIVE Expand(_, _, _)
\* match.expand(template)
Expand(text, m, tpl) ==
    IF Len(tpl) = 0 THEN ""
    ELSE (IF tpl[1].g = 0 THEN tpl[1].s ELSE Group(text, m, tpl[1].g))
         \o Expand(text, m, Tail(tpl))

RECURSIVE SubFrom(_, _, _, _, _)
RECURSIVE SubMatch(_, _, _, _, _, _)
\* re.sub(re, tpl, text, count) from offset from on; count 0 is no limit and is
\* passed here as -1
SubFrom(re, tpl, text, from, count) ==
    SubMatch(re, tpl, text, from, count,
             IF count = 0 THEN NoMatch ELSE SearchFrom(re, text, from))

\* the text from offset from on with the match m, if it is one, replaced, and
\* the replacements after it
SubMatch(re, tpl, text, from, count, m) ==
    IF ~m.ok THEN SliceFrom(text, from)
    ELSE Slice(text, from, m.s) \o Expand(text, m, tpl)
         \o SubFrom(re, tpl, text, NextFrom(m), count - 1)

\* re.sub(re, tpl, text)
Sub(re, tpl, text) == SubFrom(re, tpl, text, 0, -1)

\* TRUE, once the text s has been computed: used where a chain of rewrites has
\* to be computed one after the other, like the statements of the source
Computed(s) == Len(s) >= 0

RECURSIVE SubEach(_, _)
\* line = re.sub(re, tpl, line) for each <<re, tpl>> of stages, in order
SubEach(stages, line) ==
    IF Len(stages) = 0 \/ ~Computed(line) THEN line
    ELSE SubEach(Tail(stages), Sub(stages[1][1], stages[1][2], line))

RECURSIVE ReplaceEach(_, _)
\* s = s.replace(old, new) for each <<old, new>> of pairs, in order
ReplaceEach(pairs, s) ==
    IF Len(pairs) = 0 \/ ~Computed(s) THEN s
    ELSE ReplaceEach(Tail(pairs), Replace(s, pairs[1][1], pairs[1][2]))

---------------------------------------------------------------------------
(* _preprocess_perl_code                                                   *)

\* r'=pod.*?=cut' with re.DOTALL
PodRe == Cat(<<Lit("=pod"), LazyStar(NotIn({})), Lit("=cut")>>)
\* r'\\\n\s*'
ContinuationRe == Cat(<<Lit("\\\n"), Star(Sp)>>)

PreprocessPerlCode(text) == Sub(ContinuationRe, <<T(" ")>>, Sub(PodRe, <<>>, text))

---------------------------------------------------------------------------
(* _parse_perl_code: the element extractor                                 *)

\* r'package\s+([A-Za-z0-9:]+)\s*;'
PackageRe ==
    Cat(<<Lit("package"), Plus(Sp), Grp(1, Plus(In(Lower \cup Upper \cup Digit \cup {":"}))),
          Star(Sp), Lit(";")>>)

\* r'(use|require)\s+([A-Za-z0-9:]+)(\s+.*?)?;'
ImportRe ==
    Cat(<<Grp(1, Alt(<<Lit("use"), Lit("require")>>)), Plus(Sp),
          Grp(2, Plus(In(Lower \cup Upper \cup Digit \cup {":"}))),
          Opt(Grp(3, Cat(<<Plus(Sp), LazyStar(Dot)>>))), Lit(";")>>)

\* r'sub\s+([A-Za-z0-9_]+)\s*(\{)'
SubHeaderRe ==
    Cat(<<Lit("sub"), Plus(Sp), Grp(1, Plus(In(Lower \cup Upper \cup Digit \cup {"_"}))),
          Star(Sp), Grp(2, Lit("{"))>>)

RECURSIVE PackageElements(_, _)
PackageElements(text, ms) ==
    IF Len(ms) = 0 THEN <<>>
    ELSE <<[type |-> "package", name |-> Group(text, ms[1], 1),
            start |-> ms[1].s, end |-> ms[1].e]>>
         \o PackageElements(text, Tail(ms))

RECURSIVE ImportElements(_, _)
ImportElements(text, ms) ==
    IF Len(ms) = 0 THEN <<>>
    ELSE <<[type |-> "import", import_type |-> Group(text, ms[1], 1),
            module |-> Group(text, ms[1], 2),
            args |-> IF HasGroup(ms[1], 3) THEN Strip(Group(text, ms[1], 3)) ELSE "",
            start |-> ms[1].s, end |-> ms[1].e]>>
         \o ImportElements(text, Tail(ms))

RECURSIVE BraceLoop(_, _, _, _)
\* for i in range(start_pos, len(perl_code)): the value of end_pos after the
\* loop, which is start_pos when the loop ends without its break
BraceLoop(text, i, brace_count, end_pos) ==
    IF i >= Len(text) THEN end_pos
    ELSE IF At(text, i) = "{" THEN BraceLoop(text, i + 1, brace_count + 1, end_pos)
    ELSE IF At(text, i) = "}"
         THEN (IF brace_count - 1 = 0 THEN i + 1
               ELSE BraceLoop(text, i + 1, brace_count - 1, end_pos))
    ELSE BraceLoop(text, i + 1, brace_count, end_pos)

\* a scan that stops at the first closing brace, whatever the nesting
BraceScanFirstClose(text, start_pos) ==
    LET k == Find(text, "}", start_pos) IN IF k < 0 THEN start_pos ELSE k + 1

\* brace_count = 1; end_pos = start_pos; the loop
BraceScan(text, start_pos) == BraceLoop(text, start_pos, 1, start_pos)

RECURSIVE SubElements(_, _)
SubElements(text, ms) ==
    IF Len(ms) = 0 THEN <<>>
    ELSE LET start_pos == ms[1].e
             end_pos == BraceScan(text, start_pos)
         IN <<[type |-> "subroutine", name |-> Group(text, ms[1], 1),
               body |-> Slice(text, start_pos, end_pos - 1),
               start |-> ms[1].s, end |-> end_pos]>>
            \o SubElements(text, Tail(ms))

ExtractPackages(text) == PackageElements(text, FindIter(PackageRe, text))
ExtractImports(text) == ImportElements(text, FindIter(ImportRe, text))
ExtractSubs(text) == SubElements(text, FindIter(SubHeaderRe, text))

\* (start, end) tuples compare as Python compares tuples
RegionLess(a, b) == a[1] < b[1] \/ (a[1] = b[1] /\ a[2] < b[2])

RECURSIVE InsertRegion(_, _)
InsertRegion(x, sorted) ==
    IF Len(sorted) = 0 THEN <<x>>
    ELSE IF RegionLess(x, sorted[1]) THEN <<x>> \o sorted
    ELSE <<sorted[1]>> \o InsertRegion(x, Tail(sorted))

RECURSIVE SortRegions(_)
\* used_regions.sort()
SortRegions(rs) ==
    IF Len(rs) = 0 THEN <<>>
    ELSE InsertRegion(rs[Len(rs)], SortRegions(SubSeq(rs, 1, Len(rs) - 1)))

UsedRegions(els) == SortRegions([i \in 1..Len(els) |-> <<els[i].start, els[i].end>>])

RECURSIVE MainScriptParts(_, _, _)
\* the loop over used_regions and the tail after it, joined
MainScriptParts(text, regions, last_end) ==
    IF Len(regions) = 0
    THEN (IF last_end < Len(text) THEN SliceFrom(text, last_end) ELSE "")
    ELSE (IF regions[1][1] > last_end THEN Slice(text, last_end, regions[1][1]) ELSE "")
         \o MainScriptParts(text, Tail(regions), regions[1][2])

\* ''.join(main_script_parts).strip()
MainScript(text, els) == Strip(MainScriptParts(text, UsedRegions(els), 0))

\* the elements with the main_script element appended when its body is not empty
WithMainScript(text, els) ==
    IF MainScript(text, els) # ""
    THEN Append(els, [type |-> "main_script", body |-> MainScript(text, els),
                      start |-> -1, end |-> -1])
    ELSE els

RECURSIVE InsertElement(_, _)
InsertElement(x, sorted) ==
    IF Len(sorted) = 0 THEN <<x>>
    ELSE IF x.start < sorted[1].start THEN <<x>> \o sorted
    ELSE <<sorted[1]>> \o InsertElement(x, Tail(sorted))

RECURSIVE SortByStart(_)
SortByStart(els) ==
    IF Len(els) = 0 THEN <<>>
    ELSE InsertElement(els[Len(els)], SortByStart(SubSeq(els, 1, Len(els) - 1)))

\* a sort that is left out
SortElementsSkipped(els) == els

\* elements.sort(key=lambda x: x['start']): stable
SortElements(els) == SortByStart(els)

ParsePerlCode(text) ==
    SortElements(WithMainScript(text,
        ExtractPackages(text) \o ExtractImports(text) \o ExtractSubs(text)))

---------------------------------------------------------------------------
(* _basic_perl_to_python_conversion: the line rewriter                     *)

\* the indentation unit: current_indent += 4
IndentUnit == 4

\* lines 583-585: the shebang line and the use/require statements are removed
StripUseRequire(body) ==
    SubEach(
        <<\* r'^#!.*?\n'
          <<Cat(<<Bos, Lit("#!"), LazyStar(Dot), Lit("\n")>>), <<>>>>,
          \* r'use\s+[^;]+;'
          <<Cat(<<Lit("use"), Plus(Sp), Plus(NotIn({";"})), Lit(";")>>), <<>>>>,
          \* r'require\s+[^;]+;'
          <<Cat(<<Lit("require"), Plus(Sp), Plus(NotIn({";"})), Lit(";")>>), <<>>>>
        >>, body)

\* re.search(r'(?:a|b|...)\b', body)
HasWordEnding(body, words) ==
    Search(Cat(<<Alt([i \in 1..Len(words) |-> Lit(words[i])]), WordB>>), body).ok

\* the imports inferred from the body, before they are sorted
InferredImports(body) ==
    (IF \/ Contains(body, "@ARGV") \/ Contains(body, "$0") \/ Contains(body, "getc")
        \/ Contains(body, "eof") \/ Contains(body, "exit")
     THEN <<"import sys">> ELSE <<>>)
    \o (IF \/ Contains(body, "$!") \/ Contains(body, "$?")
           \/ HasWordEnding(body, <<"chmod", "chown", "mkdir", "rmdir", "unlink", "rename",
                                    "system", "exec", "fork", "wait", "getpid", "getppid",
                                    "getpgrp", "setpgrp">>)
        THEN <<"import os", "import errno">> ELSE <<>>)
    \o (IF HasWordEnding(body, <<"rand", "srand">>) THEN <<"import random">> ELSE <<>>)
    \o (IF HasWordEnding(body, <<"time", "localtime", "gmtime", "sleep">>)
        THEN <<"import time">> ELSE <<>>)
    \o (IF \/ HasWordEnding(body, <<"m/", "s/", "tr/", "qr/", "quotemeta">>)
           \/ Contains(body, "=~") \/ Contains(body, "!~")
        THEN <<"import re">> ELSE <<>>)
    \o (IF HasWordEnding(body, <<"sin", "cos", "tan", "exp", "log", "sqrt">>)
        THEN <<"import math">> ELSE <<>>)
    \o (IF HasWordEnding(body, <<"pack", "unpack">>) THEN <<"import struct">> ELSE <<>>)
    \o (IF Contains(body, "alarm") THEN <<"import signal">> ELSE <<>>)
    \o (IF Contains(body, "warn") THEN <<"import warnings">> ELSE <<>>)

\* the rank of an import line in sorted(imports)
ImportRank(l) ==
    CASE l = "import errno" -> 1 [] l = "import math" -> 2 [] l = "import os" -> 3
      [] l = "import random" -> 4 [] l = "import re" -> 5 [] l = "import signal" -> 6
      [] l = "import struct" -> 7 [] l = "import sys" -> 8 [] l = "import time" -> 9
      [] l = "import warnings" -> 10

RECURSIVE InsertImport(_, _)
InsertImport(x, sorted) ==
    IF Len(sorted) = 0 THEN <<x>>
    ELSE IF ImportRank(x) < ImportRank(sorted[1]) THEN <<x>> \o sorted
    ELSE <<sorted[1]>> \o InsertImport(x, Tail(sorted))

RECURSIVE SortImports(_)
SortImports(ls) ==
    IF Len(ls) = 0 THEN <<>>
    ELSE InsertImport(ls[Len(ls)], SortImports(SubSeq(ls, 1, Len(ls) - 1)))

\* if imports: lines.extend(sorted(imports)); lines.append('')
ImportBlock(imports) ==
    IF Len(imports) = 0 THEN <<>> ELSE SortImports(imports) \o <<"">>

\* lines 588-630: the lines emitted before the loop
ImportLines(body) == ImportBlock(InferredImports(body))

\* r'\$(\w+)' replaced by r'\1'
StripScalarSigils(s) == Sub(Cat(<<Lit("$"), Grp(1, Plus(Wd))>>), <<G(1)>>, s)

\* r'\$(\w+)' replaced by r'{\1}'
Interpolate(s) == Sub(Cat(<<Lit("$"), Grp(1, Plus(Wd))>>), <<T("{"), G(1), T("}")>>, s)

\* _convert_perl_condition
ConvertPerlCondition(condition) ==
    StripScalarSigils(SubEach(
        <<\* r'defined\s+\$?(\w+)'
          <<Cat(<<Lit("defined"), Plus(Sp), Opt(Lit("$")), Grp(1, Plus(Wd))>>),
            <<G(1), T(" is not None")>>>>,
          \* r'defined\s*\(\s*\$?(\w+)\s*\)'
          <<Cat(<<Lit("defined"), Star(Sp), Lit("("), Star(Sp), Opt(Lit("$")),
                  Grp(1, Plus(Wd)), Star(Sp), Lit(")")>>),
            <<G(1), T(" is not None")>>>>
        >>,
        ReplaceEach(<<<<"&&", " and ">>, <<"||", " or ">>, <<"!", " not ">>,
                      <<"eq", "==">>, <<"ne", "!=">>, <<"lt", "<">>, <<"gt", ">">>,
                      <<"le", "<=">>, <<"ge", ">=">>>>, condition)))

\* the condition of an unless block, lines 666-678
ConvertUnlessCondition(condition) ==
    ReplaceEach(<<<<"&&", " and ">>, <<"||", " or ">>, <<"!", " not ">>>>,
        SubEach(
            <<\* r'defined\s+(\w+)'
              <<Cat(<<Lit("defined"), Plus(Sp), Grp(1, Plus(Wd))>>),
                <<G(1), T(" is not None")>>>>,
              \* r'defined\s*\(\s*(\w+)\s*\)'
              <<Cat(<<Lit("defined"), Star(Sp), Lit("("), Star(Sp), Grp(1, Plus(Wd)),
                      Star(Sp), Lit(")")>>),
                <<G(1), T(" is not None")>>>>
            >>,
            StripScalarSigils(condition)))

\* r'KEYWORD\s*\((.*?)\)\s*\{'
BlockRe(keyword) ==
    Cat(<<Lit(keyword), Star(Sp), Lit("("), Grp(1, LazyStar(Dot)), Lit(")"), Star(Sp),
          Lit("{")>>)

\* r'die\s+"([^"]+)"'
DieRe == Cat(<<Lit("die"), Plus(Sp), Lit("\""), Grp(1, Plus(NotIn({"\""}))), Lit("\"")>>)
UnlessRe == BlockRe("unless")
IfRe == BlockRe("if")
WhileRe == BlockRe("while")
UntilRe == BlockRe("until")
\* r'(?:foreach|for)\s+(?:my\s+)?\$(\w+)\s+\((.*?)\)\s*\{'
ForRe ==
    Cat(<<Alt(<<Lit("foreach"), Lit("for")>>), Plus(Sp), Opt(Cat(<<Lit("my"), Plus(Sp)>>)),
          Lit("$"), Grp(1, Plus(Wd)), Plus(Sp), Lit("("), Grp(2, LazyStar(Dot)), Lit(")"),
          Star(Sp), Lit("{")>>)
\* r'my\s+\(([^)]+)\)\s*=\s*(.+)'
TupleRe ==
    Cat(<<Lit("my"), Plus(Sp), Lit("("), Grp(1, Plus(NotIn({")"}))), Lit(")"), Star(Sp),
          Lit("="), Star(Sp), Grp(2, Plus(Dot))>>)

\* int(s) for a string of decimal digits
DigitValue(c) == CHOOSE d \in 0..9 : At("0123456789", d) = c

RECURSIVE ParseInt(_)
ParseInt(s) ==
    IF Len(s) = 0 THEN 0
    ELSE 10 * ParseInt(Slice(s, 0, Len(s) - 1)) + DigitValue(At(s, Len(s) - 1))

\* int(s), and str(n) the other way, raise ValueError for a string of more
\* digits than the limit of the interpreter; no limit in an interpreter older
\* than 3.10.7
IntRaises(s) == int_max_str_digits > 0 /\ Len(s) > int_max_str_digits

RECURSIVE FormatInt(_)
\* str(n) for n >= 0
FormatInt(n) ==
    IF n < 10 THEN At("0123456789", n)
    ELSE FormatInt(n \div 10) \o At("0123456789", n % 10)

\* r'(\d+)\.\.(\d+)'
RangeRe == Cat(<<Grp(1, Plus(Dg)), Lit(".."), Grp(2, Plus(Dg))>>)

\* lines 708-714: a range start..end, range_match being re.match on it
ConvertRange(iterable, range_match) ==
    IF range_match.ok
    THEN "range(" \o Group(Strip(iterable), range_match, 1) \o ", "
         \o FormatInt(ParseInt(Group(Strip(iterable), range_match, 2)) + 1) \o ")"
    ELSE iterable

\* line 714: f"range({start}, {int(end) + 1})" when end, or end + 1 written
\* out again, has too many digits
RangeEndRaises(iterable, range_match) ==
    /\ ~StartsWithAt(iterable, 0, "@")
    /\ ~StartsWithAt(iterable, 0, "%")
    /\ range_match.ok
    /\ \/ IntRaises(Group(Strip(iterable), range_match, 2))
       \/ IntRaises(FormatInt(ParseInt(Group(Strip(iterable), range_match, 2)) + 1))

\* the iterable of a for/foreach header, lines 701-714
ConvertIterable(iterable) ==
    IF StartsWithAt(iterable, 0, "@") THEN SliceFrom(iterable, 1)
    ELSE IF StartsWithAt(iterable, 0, "%") THEN SliceFrom(iterable, 1) \o ".keys()"
    ELSE ConvertRange(iterable, MatchAt(RangeRe, Strip(iterable), 0))

RECURSIVE NoneTuple(_)
\* ', '.join(['None'] * n)
NoneTuple(n) ==
    IF n <= 0 THEN "" ELSE IF n = 1 THEN "None" ELSE "None, " \o NoneTuple(n - 1)

\* lines 761-764: the assignment of @ARGV to var_count variables
ArgvStatement(variables, var_count) ==
    variables \o " = sys.argv[1:] if len(sys.argv) > " \o FormatInt(var_count)
    \o " else (" \o NoneTuple(var_count) \o ")"

\* lines 755-767
TupleStatement(variables, value) ==
    IF value = "@ARGV"
    THEN ArgvStatement(variables, Len(FindIter(Plus(Wd), variables)))
    ELSE variables \o " = " \o value

\* the statement emitted for a tuple declaration, lines 746-767
ConvertTuple(line, match) ==
    TupleStatement(StripScalarSigils(Group(line, match, 1)),
                   RStripOf(StripScalarSigils(Strip(Group(line, match, 2))), {";"}))

---------------------------------------------------------------------------
(* The fall-through pipeline of the line rewriter, lines 770-945.          *)

\* _initialize_perl_builtins_map, in the order of the dict
PerlBuiltinsMap ==
    <<<<"print", "print">>, <<"say", "print">>, <<"printf", "print(f-string)">>,
      <<"sprintf", "f-string">>, <<"readline", "input">>,
      <<"getc", "sys.stdin.read(1)">>, <<"eof", "not sys.stdin.readable()">>,
      <<"chomp", "str.rstrip">>, <<"chop", "str[:-1]">>, <<"length", "len">>,
      <<"substr", "str[start:end]">>, <<"index", "str.find">>,
      <<"rindex", "str.rfind">>, <<"split", "str.split">>, <<"join", "str.join">>,
      <<"uc", "str.upper">>, <<"lc", "str.lower">>, <<"ucfirst", "str.capitalize">>,
      <<"lcfirst", "lambda s: s[0].lower() + s[1:] if s else s">>,
      <<"quotemeta", "re.escape">>, <<"reverse", "reversed">>,
      <<"pack", "struct.pack">>, <<"unpack", "struct.unpack">>,
      <<"push", "list.append or list.extend">>, <<"pop", "list.pop">>,
      <<"shift", "list.pop(0)">>, <<"unshift", "list.insert(0, item)">>,
      <<"splice", "list[start:end] = new_items">>, <<"sort", "sorted">>,
      <<"map", "map or list comprehension">>,
      <<"grep", "filter or list comprehension">>,
      <<"foreach", "for item in iterable">>, <<"for", "for item in iterable">>,
      <<"while", "while condition">>, <<"until", "while not condition">>,
      <<"keys", "dict.keys">>, <<"values", "dict.values">>, <<"each", "dict.items">>,
      <<"exists", "key in dict">>, <<"delete", "del dict[key]">>, <<"open", "open">>,
      <<"close", "file.close">>, <<"read", "file.read">>, <<"write", "file.write">>,
      <<"seek", "file.seek">>, <<"tell", "file.tell">>,
      <<"binmode", "# Python handles binary mode with \"b\" flag in open">>,
      <<"chmod", "os.chmod">>, <<"chown", "os.chown">>, <<"mkdir", "os.mkdir">>,
      <<"rmdir", "os.rmdir">>, <<"unlink", "os.unlink or os.remove">>,
      <<"rename", "os.rename">>, <<"defined", "is not None">>, <<"undef", "None">>,
      <<"scalar", "len">>, <<"ref", "type">>,
      <<"bless", "# Use Python classes instead">>, <<"int", "int">>, <<"hex", "hex">>,
      <<"oct", "oct">>, <<"chr", "chr">>, <<"ord", "ord">>,
      <<"looks_like_number", "looks_like_number">>, <<"die", "raise Exception">>,
      <<"warn", "warnings.warn">>, <<"eval", "try/except block">>, <<"try", "try">>,
      <<"catch", "except">>, <<"require", "import">>, <<"use", "import">>,
      <<"package", "class">>, <<"sub", "def">>,
      <<"system", "os.system or subprocess.run">>, <<"exec", "os.execv">>,
      <<"fork", "os.fork">>, <<"wait", "os.wait">>, <<"exit", "sys.exit">>,
      <<"getpid", "os.getpid">>, <<"getppid", "os.getppid">>,
      <<"getpgrp", "os.getpgrp">>, <<"setpgrp", "os.setpgrp">>,
      <<"time", "time.time">>, <<"localtime", "time.localtime">>,
      <<"gmtime", "time.gmtime">>, <<"sleep", "time.sleep">>,
      <<"alarm", "signal.alarm">>, <<"rand", "random.random">>,
      <<"srand", "random.seed">>, <<"sin", "math.sin">>, <<"cos", "math.cos">>,
      <<"tan", "math.tan">>, <<"exp", "math.exp">>, <<"log", "math.log">>,
      <<"sqrt", "math.sqrt">>, <<"abs", "abs">>, <<"m/", "re.search">>,
      <<"s/", "re.sub">>, <<"tr/", "str.translate">>, <<"qr/", "re.compile">>>>

RECURSIVE ApplyBuiltinsFrom(_, _)
\* lines 940-942 from the k-th entry of the map on: the loop changes the line
\* at the next entry whose Perl name occurs in it
ApplyBuiltinsFrom(line, k) ==
    LET found == {j \in k..Len(perl_builtins_map) : Contains(line, perl_builtins_map[j][1])} IN
    IF found = {} THEN line
    ELSE LET j == Min(found) IN
         ApplyBuiltinsFrom(Replace(line, perl_builtins_map[j][1], perl_builtins_map[j][2]), j + 1)

\* a pass that takes the line without the blanks around it
ApplyBuiltinsStripped(line) == ApplyBuiltinsFrom(Strip(line), 1)

\* lines 942-944 on line
ApplyBuiltins(line) == ApplyBuiltinsFrom(line, 1)

\* \$?\w+
SigilWord == Cat(<<Opt(Lit("$")), Plus(Wd)>>)

\* r'(\d+|"\w+"|\'[^\']+\'|\$\w+)' and, with \w+ for \d+, the key of a hash
Subscript(first) ==
    Alt(<<first, Cat(<<Lit("\""), Plus(Wd), Lit("\"")>>),
          Cat(<<Lit("'"), Plus(NotIn({"'"})), Lit("'")>>), Cat(<<Lit("$"), Plus(Wd)>>)>>)

\* r'my\s+SIGIL(\w+)\s*=\s*'
MyRe(sigil) ==
    Cat(<<Lit("my"), Plus(Sp), Lit(sigil), Grp(1, Plus(Wd)), Star(Sp), Lit("="), Star(Sp)>>)

\* lines 771-777: declarations and element access
ConvertDeclarations(line) ==
    SubEach(
        <<<<MyRe("$"), <<G(1), T(" = ")>>>>,
          <<MyRe("@"), <<G(1), T(" = []  # Initialize as empty list\n            ")>>>>,
          <<MyRe("%"), <<G(1), T(" = {}  # Initialize as empty dictionary\n            ")>>>>,
          \* r'\$(\w+)\[(\d+|"\w+"|\'[^\']+\'|\$\w+)\]'
          <<Cat(<<Lit("$"), Grp(1, Plus(Wd)), Lit("["), Grp(2, Subscript(Plus(Dg))), Lit("]")>>),
            <<G(1), T("["), G(2), T("]")>>>>,
          \* r'\$(\w+)\{(\w+|"\w+"|\'[^\']+\'|\$\w+)\}'
          <<Cat(<<Lit("$"), Grp(1, Plus(Wd)), Lit("{"), Grp(2, Subscript(Plus(Wd))), Lit("}")>>),
            <<G(1), T("["), G(2), T("]")>>>>
        >>, line)

\* r'(\w+(?:\s*,\s*\w+)*)\s*=\s*\@ARGV'
ArgvRe ==
    Cat(<<Grp(1, Cat(<<Plus(Wd), Star(Cat(<<Star(Sp), Lit(","), Star(Sp), Plus(Wd)>>))>>)),
          Star(Sp), Lit("="), Star(Sp), Lit("@ARGV")>>)

\* lines 780-793: assignment from @ARGV and the special variables
ConvertSpecialVariables(line) ==
    ReplaceEach(
        <<<<"@ARGV", "sys.argv[1:]">>, <<"@_", "args">>, <<"$_", "item">>,
          <<"$!", "os.strerror(errno.errno)">>, <<"$?", "os.system_exit_code">>,
          <<"$0", "sys.argv[0]">>>>,
        IF Contains(line, "=") /\ Contains(line, "@ARGV") /\ Search(ArgvRe, line).ok
        THEN Sub(ArgvRe, <<G(1), T(" = sys.argv[1:]")>>, line)
        ELSE line)

\* r'PREFIX\s*(\$?\w+)' for a call without parentheses and
\* r'PREFIX\s*\(\s*(\$?\w+)\s*\)' for one with them
CallRe(prefix, parens) ==
    Cat(prefix \o (IF parens
                   THEN <<Star(Sp), Lit("("), Star(Sp), Grp(1, SigilWord), Star(Sp), Lit(")")>>
                   ELSE <<Plus(Sp), Grp(1, SigilWord)>>))

\* lines 796-807: defined, ref, our and qw
ConvertDefinedRefQw(line) ==
    SubEach(
        <<\* r'defined\s+(\$?\w+)'
          <<CallRe(<<Lit("defined")>>, FALSE), <<G(1), T(" is not None")>>>>,
          \* r'defined\s*\(\s*(\$?\w+)\s*\)'
          <<CallRe(<<Lit("defined")>>, TRUE), <<G(1), T(" is not None")>>>>,
          \* r'!\s*defined\s+(\$?\w+)'
          <<CallRe(<<Lit("!"), Star(Sp), Lit("defined")>>, FALSE), <<G(1), T(" is None")>>>>,
          \* r'!\s*defined\s*\(\s*(\$?\w+)\s*\)'
          <<CallRe(<<Lit("!"), Star(Sp), Lit("defined")>>, TRUE), <<G(1), T(" is None")>>>>,
          \* r'ref\s*\(\s*(\$?\w+)\s*\)'
          <<CallRe(<<Lit("ref")>>, TRUE),
            <<T("isinstance("), G(1), T(", (list, dict, object))")>>>>,
          \* r'!\s*ref\s*\(\s*(\$?\w+)\s*\)'
          <<CallRe(<<Lit("!"), Star(Sp), Lit("ref")>>, TRUE),
            <<T("not isinstance("), G(1), T(", (list, dict, object))")>>>>,
          \* r'our\s+(\$?\@?\%?\w+)'
          <<Cat(<<Lit("our"), Plus(Sp),
                  Grp(1, Cat(<<Opt(Lit("$")), Opt(Lit("@")), Opt(Lit("%")), Plus(Wd)>>))>>),
            <<G(1)>>>>,
          \* r'qw\s*\(\s*(.*?)\s*\)'
          <<Cat(<<Lit("qw"), Star(Sp), Lit("("), Star(Sp), Grp(1, LazyStar(Dot)), Star(Sp),
                  Lit(")")>>),
            <<T("["), G(1), T("]")>>>>
        >>, line)

\* the re flags of a match or a substitution, joined by ', '
ReFlags(flags) ==
    Join((IF Contains(flags, "i") THEN <<"re.IGNORECASE">> ELSE <<>>)
         \o (IF Contains(flags, "m") THEN <<"re.MULTILINE">> ELSE <<>>)
         \o (IF Contains(flags, "s") THEN <<"re.DOTALL">> ELSE <<>>), ", ")

\* r'(\$\w+)\s*=~\s*OP\/([^\/]+)\/' : the head of the three regex operators
RegexOpHead(op) ==
    <<Grp(1, Cat(<<Lit("$"), Plus(Wd)>>)), Star(Sp), Lit("=~"), Star(Sp), Lit(op), Lit("/"),
      Grp(2, Plus(NotIn({"/"}))), Lit("/")>>

\* r'(\$\w+)\s*=~\s*m\/([^\/]+)\/([a-z]*)'
MatchOpRe == Cat(RegexOpHead("m") \o <<Grp(3, Star(In(Lower)))>>)
\* r'(\$\w+)\s*=~\s*s\/([^\/]+)\/([^\/]*)\/([a-z]*)'
SubstitutionOpRe ==
    Cat(RegexOpHead("s") \o <<Grp(3, Star(NotIn({"/"}))), Lit("/"), Grp(4, Star(In(Lower)))>>)
\* r'(\$\w+)\s*=~\s*tr\/([^\/]+)\/([^\/]*)\/([a-z]*)'
TranslationOpRe ==
    Cat(RegexOpHead("tr") \o <<Grp(3, Star(NotIn({"/"}))), Lit("/"), Grp(4, Star(In(Lower)))>>)

\* lines 812-831
MatchCall(line, match) ==
    LET var == LStripOf(Group(line, match, 1), {"$"})
        flags_str == ReFlags(Group(line, match, 3))
    IN IF ~match.ok THEN line
       ELSE IF flags_str # ""
       THEN "re.search(r'" \o Group(line, match, 2) \o "', " \o var \o ", " \o flags_str \o ")"
       ELSE "re.search(r'" \o Group(line, match, 2) \o "', " \o var \o ")"

\* lines 811-831: $var =~ m/pattern/flags
ConvertMatch(line) == MatchCall(line, Search(MatchOpRe, line))

\* lines 835-867
SubstitutionCall(line, match) ==
    LET var == LStripOf(Group(line, match, 1), {"$"})
        flags_str == ReFlags(Group(line, match, 4))
        count == IF Contains(Group(line, match, 4), "g") THEN 0 ELSE 1
        call == var \o " = re.sub(r'" \o Group(line, match, 2) \o "', r'"
                \o Group(line, match, 3) \o "', " \o var
    IN IF ~match.ok THEN line
       ELSE IF flags_str # ""
       THEN (IF count = 0 THEN call \o ", flags=" \o flags_str \o ")"
             ELSE call \o ", count=" \o FormatInt(count) \o ", flags=" \o flags_str \o ")")
       ELSE (IF count = 0 THEN call \o ")"
             ELSE call \o ", count=" \o FormatInt(count) \o ")")

\* lines 834-867: $var =~ s/pattern/replacement/flags
ConvertSubstitution(line) == SubstitutionCall(line, Search(SubstitutionOpRe, line))

\* lines 871-877
TranslationCall(line, match) ==
    LET var == LStripOf(Group(line, match, 1), {"$"}) IN
    IF ~match.ok THEN line
    ELSE var \o " = " \o var \o ".translate(str.maketrans('" \o Group(line, match, 2)
         \o "', '" \o Group(line, match, 3) \o "'))"

\* lines 870-877: $var =~ tr/pattern/replacement/
ConvertTranslation(line) == TranslationCall(line, Search(TranslationOpRe, line))

\* lines 880-895: sigils, concatenation, hash and array access
ConvertReferences(line) ==
    SubEach(
        <<\* r'\$(\w+)', r'\@(\w+)', r'\%(\w+)'
          <<Cat(<<Lit("$"), Grp(1, Plus(Wd))>>), <<G(1)>>>>,
          <<Cat(<<Lit("@"), Grp(1, Plus(Wd))>>), <<G(1)>>>>,
          <<Cat(<<Lit("%"), Grp(1, Plus(Wd))>>), <<G(1)>>>>,
          \* r'\s+\.\s+'
          <<Cat(<<Plus(Sp), Lit("."), Plus(Sp)>>), <<T(" + ")>>>>,
          \* r'(\w+)\{([\'"]?\w+[\'"]?)\}'
          <<Cat(<<Grp(1, Plus(Wd)), Lit("{"),
                  Grp(2, Cat(<<Opt(In({"'", "\""})), Plus(Wd), Opt(In({"'", "\""}))>>)),
                  Lit("}")>>),
            <<G(1), T("["), G(2), T("]")>>>>,
          \* r'@(\w+)\[(\d+)\]'
          <<Cat(<<Lit("@"), Grp(1, Plus(Wd)), Lit("["), Grp(2, Plus(Dg)), Lit("]")>>),
            <<G(1), T("["), G(2), T("]")>>>>,
          \* r'\$#(\w+)'
          <<Cat(<<Lit("$#"), Grp(1, Plus(Wd))>>), <<T("len("), G(1), T(") - 1")>>>>
        >>, line)

\* the words a print text may hold without being taken for variables
PrintKeywords ==
    {"and", "or", "not", "is", "in", "for", "while", "if", "else", "elif", "try", "except",
     "finally", "with", "as", "def", "class", "return", "yield", "from", "import", "True",
     "False", "None", "sum"}

\* re.search(r'\b' + var_name + r'\s*=', perl_body)
IsAssigned(var_name, body) ==
    Search(Cat(<<WordB, Lit(var_name), Star(Sp), Lit("=")>>), body).ok

RECURSIVE WrapVariables(_, _, _, _)
\* for var_name in re.findall(r'\b(\w+)\b', text): ... over the matches ms of words
WrapVariables(text, words, ms, body) ==
    IF Len(ms) = 0 \/ ~Computed(text) THEN text
    ELSE LET var_name == Slice(words, ms[1].s, ms[1].e) IN
         WrapVariables(
             IF var_name \notin PrintKeywords /\ IsAssigned(var_name, body)
             THEN Sub(Cat(<<WordB, Lit(var_name), WordB>>), <<T("{" \o var_name \o "}")>>, text)
             ELSE text,
             words, Tail(ms), body)

\* r'print\s+"([^"]+)"'
PrintRe == Cat(<<Lit("print"), Plus(Sp), Lit("\""), Grp(1, Plus(NotIn({"\""}))), Lit("\"")>>)

\* lines 915-916: 'sum' is both a variable and a built-in function
WrapSum(text, body) ==
    IF Contains(text, "sum") /\ IsAssigned("sum", body)
    THEN Replace(text, "sum", "{sum}") ELSE text

\* lines 902-918: the statement emitted for a print, text being the quoted
\* text with its variable references put in braces
PrintStatement(text, body) ==
    "print(f\""
    \o WrapSum(WrapVariables(text, text,
                             FindIter(Cat(<<WordB, Grp(1, Plus(Wd)), WordB>>), text), body),
               body)
    \o "\")"

\* lines 899-918: the statement emitted for a print with a quoted text
ConvertPrint(line, match, body) == PrintStatement(Interpolate(Group(line, match, 1)), body)

\* r'chomp\s*\(\s*\$?(\w+)\s*=\s*<STDIN>\s*\)'
ChompRe ==
    Cat(<<Lit("chomp"), Star(Sp), Lit("("), Star(Sp), Opt(Lit("$")), Grp(1, Plus(Wd)),
          Star(Sp), Lit("="), Star(Sp), Lit("<STDIN>"), Star(Sp), Lit(")")>>)

\* lines 771-895: the line when the print rule is tried
BeforePrint(line) ==
    ConvertReferences(ConvertTranslation(ConvertSubstitution(ConvertMatch(
        ConvertDefinedRefQw(ConvertSpecialVariables(ConvertDeclarations(line)))))))

\* lines 929-942: <STDIN>, the module's return value, semicolons, builtins
FinishLine(line) ==
    LET l1 == IF Contains(line, "<STDIN>") THEN Replace(line, "<STDIN>", "input()") ELSE line
        l2 == IF Strip(l1) = "1"
              THEN "# Return value from Perl module (not needed in Python)" ELSE l1
    IN ApplyBuiltins(RStripOf(l2, {";"}))

\* lines 898-945: the print rule, the chomp rule and the rest of the pipeline
EmitStatement(line, body, print_match, chomp_match) ==
    IF print_match.ok THEN ConvertPrint(line, print_match, body)
    ELSE IF chomp_match.ok THEN Group(line, chomp_match, 1) \o " = input().rstrip()"
    ELSE FinishLine(line)

\* lines 898-945 for the line the stages before have made
AfterReferences(line, body) ==
    EmitStatement(line, body, Search(PrintRe, line), Search(ChompRe, line))

\* lines 770-945: what the pipeline appends to lines, without the indentation
Pipeline(line, body) == AfterReferences(BeforePrint(line), body)

---------------------------------------------------------------------------
(* One iteration of the loop over the lines of a body, lines 636-945.      *)

\* what one iteration does: the rule that handled the line, the lines it
\* appended, and the indentation state after it
Outcome(rule, out, ci, st) == [rule |-> rule, out |-> out, ci |-> ci, st |-> st]

\* an iteration left by the exception exc
Raise(exc, ci, st) == Outcome("raise " \o exc, <<>>, ci, st)

Raised(o) == StartsWithAt(o.rule, 0, "raise ")

\* the name of the exception of a raised outcome
ExceptionOf(o) == SliceFrom(o.rule, Len("raise "))

\* indent_stack.pop(): IndexError on an empty list
Pop(ci, st) ==
    IF Len(st) = 0 THEN Raise("IndexError", ci, st)
    ELSE Outcome("close", <<>>, st[Len(st)], SubSeq(st, 1, Len(st) - 1))

\* line 648: if indent_stack
IndentStackTruthy(st) == Len(st) > 0

\* a block opener that increases the indent without pushing the old one
OpenBlockNoPush(rule, header, ci, st) ==
    Outcome(rule, <<Spaces(ci) \o header>>, ci + IndentUnit, st)

\* a block opener: the header is emitted, the indent pushed and increased
OpenBlock(rule, header, ci, st) ==
    Outcome(rule, <<Spaces(ci) \o header>>, ci + IndentUnit, Append(st, ci))

\* a line on which the die rule never applies
DieMatchNever(line) == NoMatch

\* lines 653-656: if 'die' in line: match = re.search(r'die\s+"([^"]+)"', line)
DieMatch(line) == IF Contains(line, "die") THEN Search(DieRe, line) ELSE NoMatch

\* the searches of the loop on a line, one for each rule that has a pattern
LineMatches(line) ==
    [die |-> DieMatch(line), unless |-> Search(UnlessRe, line), if |-> Search(IfRe, line),
     for |-> Search(ForRe, line), while |-> Search(WhileRe, line),
     until |-> Search(UntilRe, line), tuple |-> Search(TupleRe, line)]

\* the body of the loop, match being the searches on the line: each rule ends
\* with continue, so the first rule whose test succeeds handles the line
ApplyRules(line, ci, st, body, match) ==
    \* if not line.strip(): lines.append('')
    IF Strip(line) = "" THEN Outcome("blank", <<"">>, ci, st)
    \* if line.strip().startswith('#')
    ELSE IF StartsWithAt(Strip(line), 0, "#")
    THEN Outcome("comment", <<Spaces(ci) \o Strip(line)>>, ci, st)
    \* if line.strip() == '}': if indent_stack: current_indent = indent_stack.pop()
    ELSE IF Strip(line) = "}"
    THEN (IF IndentStackTruthy(st) THEN Pop(ci, st) ELSE Outcome("close", <<>>, ci, st))
    ELSE IF match.die.ok
    THEN Outcome("die", <<Spaces(ci) \o "raise Exception(f\""
                          \o Interpolate(Group(line, match.die, 1)) \o "\")">>, ci, st)
    ELSE IF match.unless.ok
    THEN OpenBlock("unless", "if not ("
                   \o ConvertUnlessCondition(Group(line, match.unless, 1)) \o "):", ci, st)
    ELSE IF match.if.ok
    THEN OpenBlock("if", "if " \o ConvertPerlCondition(Group(line, match.if, 1)) \o ":",
                   ci, st)
    ELSE IF match.for.ok
    THEN (IF RangeEndRaises(Group(line, match.for, 2),
                            MatchAt(RangeRe, Strip(Group(line, match.for, 2)), 0))
          THEN Raise("ValueError", ci, st)
          ELSE OpenBlock("for", "for " \o Group(line, match.for, 1) \o " in "
                         \o ConvertIterable(Group(line, match.for, 2)) \o ":", ci, st))
    ELSE IF match.while.ok
    THEN OpenBlock("while", "while "
                   \o ConvertPerlCondition(Group(line, match.while, 1)) \o ":", ci, st)
    ELSE IF match.until.ok
    THEN OpenBlock("until", "while not ("
                   \o ConvertPerlCondition(Group(line, match.until, 1)) \o "):", ci, st)
    ELSE IF match.tuple.ok
    THEN Outcome("tuple", <<Spaces(ci) \o ConvertTuple(line, match.tuple)>>, ci, st)
    ELSE Outcome("pipeline", <<Spaces(ci) \o Pipeline(line, body)>>, ci, st)

\* one iteration of the loop on line, from the indentation state (ci, st)
RewriteLine(line, ci, st, body) == ApplyRules(line, ci, st, body, LineMatches(line))

RECURSIVE RewriteLines(_, _, _, _)
RECURSIVE EmitAndGoOn(_, _, _)
\* the loop: the lines emitted for the input lines ls from the state (ci, st)
RewriteLines(ls, ci, st, body) ==
    IF Len(ls) = 0 THEN <<>>
    ELSE EmitAndGoOn(Tail(ls), body, RewriteLine(ls[1], ci, st, body))

\* the lines of the outcome o of an iteration, and those of the iterations after
EmitAndGoOn(ls, body, o) == o.out \o RewriteLines(ls, o.ci, o.st, body)

\* lines 588-947, body being perl_body without its use/require statements
BasicConversionOf(body) ==
    ImportLines(body) \o RewriteLines(Split(Strip(body), "\n"), 0, <<>>, body)

\* _basic_perl_to_python_conversion(perl_body)
BasicConversion(text) == BasicConversionOf(StripUseRequire(text))

---------------------------------------------------------------------------
(* _has_perl_error_handling and _convert_perl_body_to_python               *)

\* self.config = config or {} when no configuration is given
EmptyConfig == [k \in {} |-> TRUE]

\* self.config.get('options', {}).get('add_exception_handling', True)
AddExceptionHandling(cfg) ==
    IF "options" \in DOMAIN cfg
    THEN (IF "add_exception_handling" \in DOMAIN cfg.options
          THEN cfg.options.add_exception_handling ELSE TRUE)
    ELSE TRUE

\* . with re.DOTALL
AnyChar == NotIn({})

\* error_patterns, searched with re.DOTALL
ErrorPatterns ==
    <<Cat(<<WordB, Lit("die"), WordB>>),                       \* r'\bdie\b'
      Cat(<<WordB, Lit("croak"), WordB>>),                     \* r'\bcroak\b'
      Cat(<<WordB, Lit("confess"), WordB>>),                   \* r'\bconfess\b'
      Cat(<<WordB, Lit("eval"), Star(Sp), Lit("{")>>),         \* r'\beval\s*\{'
      Cat(<<WordB, Lit("try"), Star(Sp), Lit("{")>>),          \* r'\btry\s*\{'
      Cat(<<WordB, Lit("warn"), WordB>>),                      \* r'\bwarn\b'
      Cat(<<WordB, Lit("or"), Plus(Sp), Lit("die"), WordB>>),  \* r'\bor\s+die\b'
      \* r'\bunless.*?die\b'
      Cat(<<WordB, Lit("unless"), LazyStar(AnyChar), Lit("die"), WordB>>),
      \* r'\bif.*?die\b'
      Cat(<<WordB, Lit("if"), LazyStar(AnyChar), Lit("die"), WordB>>),
      DieRe,                                                   \* r'die\s+"[^"]+"'
      \* r'die\s+\'[^\']+\''
      Cat(<<Lit("die"), Plus(Sp), Lit("'"), Plus(NotIn({"'"})), Lit("'")>>),
      Cat(<<Lit("die"), Plus(Sp), Lit("$"), Plus(Wd)>>),       \* r'die\s+\$\w+'
      Cat(<<Lit("die"), Plus(Sp), Plus(Wd), Lit("(")>>),       \* r'die\s+\w+\('
      Cat(<<Lit("or"), Plus(Sp), Lit("die")>>),                \* r'or\s+die'
      Cat(<<Lit("||"), Plus(Sp), Lit("die")>>)>>               \* r'\|\|\s+die'

\* a check that finds error handling in no body
ErrorHandlingNeverFound(perl_body_text) == FALSE

\* _has_perl_error_handling(perl_body)
HasPerlErrorHandling(perl_body_text) ==
    \E i \in 1..Len(ErrorPatterns) : Search(ErrorPatterns[i], perl_body_text).ok

\* [f"    {line}" for line in ls]
Indented(ls) == [i \in 1..Len(ls) |-> "    " \o ls[i]]

\* lines 512-530: the converted lines, inside the exception scaffold or bare
Scaffold(python_lines, wrap) ==
    IF wrap
    THEN <<"try:">> \o Indented(python_lines)
         \o <<"except ValueError as e:", "    print(f\"Value Error: {e}\")", "    raise",
              "except FileNotFoundError as e:", "    print(f\"File Error: {e}\")", "    raise",
              "except Exception as e:", "    print(f\"Error: {e}\")", "    raise">>
    ELSE python_lines

\* _convert_perl_body_to_python(perl_body), add_exception_handling being the
\* value of the option
ConvertPerlBodyToPython(perl_body_text, add_exception_handling) ==
    Scaffold(BasicConversion(perl_body_text),
             ~HasPerlErrorHandling(perl_body_text) /\ add_exception_handling)

\* lines 456-459 and 478-481: 'pass' when the body gave no line
Block(body_lines) ==
    IF Len(body_lines) = 0 THEN <<"    pass">> ELSE Indented(body_lines)

---------------------------------------------------------------------------
(* _generate_python_code: the assembler                                    *)

\* the printable ASCII characters in the order of their codes (the grave
\* accent, which no import line holds, is left out)
Ascii ==
    " !\"#$%&'(" \o ")*+,-./0123456789:;<=>?@ABCDEFGHIJKLMNOPQRSTUVWXYZ[\\]^_"
    \o "abcdefghijklmnopqrstuvwxyz{|}~"

Code(c) == CHOOSE i \in 1..Len(Ascii) : SubSeq(Ascii, i, i) = c

\* a < b as Python compares str
StrLess(a, b) ==
    \E k \in 0..Len(a) :
        /\ k <= Len(b)
        /\ SubSeq(a, 1, k) = SubSeq(b, 1, k)
        /\ \/ k = Len(a) /\ k < Len(b)
           \/ k < Len(a) /\ k < Len(b) /\ Code(At(a, k)) < Code(At(b, k))

RECURSIVE SortedStrings(_)
\* sorted(S) for a set S of str
SortedStrings(S) ==
    IF S = {} THEN <<>>
    ELSE LET least == CHOOSE x \in S : \A y \in S \ {x} : StrLess(x, y)
         IN <<least>> \o SortedStrings(S \ {least})

\* lines 384-396: the import line of a Perl module
ImportLineOf(module) ==
    CASE module = "Data::Dumper" -> "import pprint"
      [] module = "Getopt::Long" -> "import argparse"
      [] module = "File::Basename" -> "import os.path"
      [] module = "Time::Local" -> "import time"
      [] module = "JSON" -> "import json"
      [] OTHER -> "# TODO: Import equivalent for Perl module '" \o module \o "'"

RECURSIVE ImportSectionAsFound(_)
\* an import section with a line for each import element, in their order
ImportSectionAsFound(els) ==
    IF Len(els) = 0 THEN <<"">>
    ELSE (IF els[1].type = "import" /\ els[1].module \notin {"strict", "warnings"}
          THEN <<ImportLineOf(els[1].module)>> ELSE <<>>)
         \o ImportSectionAsFound(Tail(els))

\* lines 376-400: the import section and the empty line after it
ImportSection(els) ==
    SortedStrings({ImportLineOf(els[i].module) :
                      i \in {j \in 1..Len(els) : /\ els[j].type = "import"
                                                 /\ els[j].module \notin {"strict", "warnings"}}})
    \o <<"">>

RECURSIVE PackageSection(_)
\* lines 403-407
PackageSection(els) ==
    IF Len(els) = 0 THEN <<>>
    ELSE (IF els[1].type = "package"
          THEN <<"# Perl package: " \o els[1].name,
                 "# In Python, we use modules instead of packages", "">>
          ELSE <<>>)
         \o PackageSection(Tail(els))

\* r'\@_|\$_\[\d+\]'
UsesArgsRe == Alt(<<Lit("@_"), Cat(<<Lit("$_["), Plus(Dg), Lit("]")>>)>>)

\* r'my\s*\(\s*\$([\w,\s$]+)\s*\)\s*=\s*\@_' : the head of the next two
TupleAssignHead ==
    <<Lit("my"), Star(Sp), Lit("("), Star(Sp), Lit("$"),
      Grp(1, Plus(In(WordChar \cup Whitespace \cup {",", "$"}))), Star(Sp), Lit(")"),
      Star(Sp), Lit("="), Star(Sp), Lit("@_")>>

\* r'my\s*\(\s*\$([\w,\s$]+)\s*\)\s*=\s*\@_;'
TupleAssignRe == Cat(TupleAssignHead \o <<Lit(";")>>)

\* r'my\s*\(\s*\$([\w,\s$]+)\s*\)\s*=\s*\@_\s*;?\n?'
TupleAssignRemoveRe == Cat(TupleAssignHead \o <<Star(Sp), Opt(Lit(";")), Opt(Lit("\n"))>>)

\* r'my\s+\$(\w+)\s*=\s*\$_\[(\d+)\]'
IndexAssignRe ==
    Cat(<<Lit("my"), Plus(Sp), Lit("$"), Grp(1, Plus(Wd)), Star(Sp), Lit("="), Star(Sp),
          Lit("$_["), Grp(2, Plus(Dg)), Lit("]")>>)

\* r'my\s+\$' + name + r'\s*=\s*\$_\[' + idx + r'\]\s*;?\n?'
IndexAssignRemoveRe(name, idx) ==
    Cat(<<Lit("my"), Plus(Sp), Lit("$" \o name), Star(Sp), Lit("="), Star(Sp),
          Lit("$_[" \o idx \o "]"), Star(Sp), Opt(Lit(";")), Opt(Lit("\n"))>>)

\* [p.strip().lstrip('$') for p in parts]
ParamNames(parts) == [i \in 1..Len(parts) |-> LStripOf(Strip(parts[i]), {"$"})]

\* re.findall: the (name, idx) pairs of the matches ms in body
IndexPairs(body, ms) ==
    [i \in 1..Len(ms) |-> [name |-> Group(body, ms[i], 1), idx |-> Group(body, ms[i], 2)]]

RECURSIVE InsertByIndex(_, _)
InsertByIndex(x, sorted) ==
    IF Len(sorted) = 0 THEN <<x>>
    ELSE IF ParseInt(x.idx) < ParseInt(sorted[1].idx) THEN <<x>> \o sorted
    ELSE <<sorted[1]>> \o InsertByIndex(x, Tail(sorted))

\* parameter assignments that are left in the order of the body
SortByIndexSkipped(pairs) == pairs

RECURSIVE SortByIndex(_)
\* param_assignments.sort(key=lambda x: int(x[1])): stable
SortByIndex(pairs) ==
    IF Len(pairs) = 0 THEN <<>>
    ELSE InsertByIndex(pairs[Len(pairs)], SortByIndex(SubSeq(pairs, 1, Len(pairs) - 1)))

RECURSIVE RemoveIndexAssigns(_, _)
\* lines 435-438: the body without the parameter assignments
RemoveIndexAssigns(body, pairs) ==
    IF Len(pairs) = 0 \/ ~Computed(body) THEN body
    ELSE RemoveIndexAssigns(Sub(IndexAssignRemoveRe(pairs[1].name, pairs[1].idx), <<>>, body),
                            Tail(pairs))

\* lines 444-445: @_ and $_[i] of a body whose parameters have names
ReplaceArgs(body) ==
    Sub(Cat(<<Lit("$_["), Grp(1, Plus(Dg)), Lit("]")>>), <<T("args["), G(1), T("]")>>,
        Replace(body, "@_", "args"))

\* lines 441-450: the def line
DefLine(name, param_names, has_params) ==
    IF Len(param_names) > 0 THEN "def " \o name \o "(" \o Join(param_names, ", ") \o "):"
    ELSE IF has_params THEN "def " \o name \o "(*args):"
    ELSE "def " \o name \o "():"

\* lines 441-461: the lines of a subroutine whose parameter names are known,
\* body being element['body'] without the assignments of the parameters
EmitSubroutine(name, param_names, has_params, body, add_exception_handling) ==
    <<DefLine(name, param_names, has_params)>>
    \o Block(ConvertPerlBodyToPython(IF Len(param_names) > 0 THEN ReplaceArgs(body) ELSE body,
                                     add_exception_handling))
    \o <<"">>

\* lines 427-438: the parameters from my $x = $_[i], pairs being sorted
IndexedSubroutine(el, pairs, add_exception_handling) ==
    EmitSubroutine(el.name, [i \in 1..Len(pairs) |-> pairs[i].name],
                   Search(UsesArgsRe, el.body).ok, RemoveIndexAssigns(el.body, pairs),
                   add_exception_handling)

\* lines 420-438: the parameters from my (...) = @_; or else from my $x = $_[i]
SubroutineWith(el, tuple_assign, add_exception_handling) ==
    IF tuple_assign.ok
    THEN EmitSubroutine(el.name, ParamNames(Split(Group(el.body, tuple_assign, 1), ",")),
                        Search(UsesArgsRe, el.body).ok,
                        Sub(TupleAssignRemoveRe, <<>>, el.body), add_exception_handling)
    ELSE IndexedSubroutine(el, SortByIndex(IndexPairs(el.body, FindIter(IndexAssignRe, el.body))),
                           add_exception_handling)

\* lines 411-461: the lines of one subroutine element
SubroutineLines(el, add_exception_handling) ==
    SubroutineWith(el, Search(TupleAssignRe, el.body), add_exception_handling)

RECURSIVE SubroutineSection(_, _)
\* lines 410-461
SubroutineSection(els, add_exception_handling) ==
    IF Len(els) = 0 THEN <<>>
    ELSE (IF els[1].type = "subroutine"
          THEN SubroutineLines(els[1], add_exception_handling) ELSE <<>>)
         \o SubroutineSection(Tail(els), add_exception_handling)

\* lines 464-485: the entry guard with the main script under it
MainSection(els, add_exception_handling) ==
    <<"if __name__ == '__main__':">>
    \o (IF \E i \in 1..Len(els) : els[i].type = "main_script"
        THEN Block(ConvertPerlBodyToPython(
                       els[Min({i \in 1..Len(els) : els[i].type = "main_script"})].body,
                       add_exception_handling))
        ELSE <<"    # No main script code found in the Perl file", "    pass">>)

\* an assembler that emits the entry guard before the subroutines
GenerateGuardBeforeSubs(els, add_exception_handling) ==
    Join(<<"#!/usr/bin/env python3", "# -*- coding: utf-8 -*-",
           "# Generated by Perl to Python Converter", "">>
         \o ImportSection(els)
         \o PackageSection(els)
         \o MainSection(els, add_exception_handling)
         \o <<"">>
         \o SubroutineSection(els, add_exception_handling),
         "\n")

\* _generate_python_code(parsed_elements)
GeneratePythonCode(els, add_exception_handling) ==
    Join(<<"#!/usr/bin/env python3", "# -*- coding: utf-8 -*-",
           "# Generated by Perl to Python Converter", "">>
         \o ImportSection(els)
         \o PackageSection(els)
         \o SubroutineSection(els, add_exception_handling)
         \o MainSection(els, add_exception_handling),
         "\n")

\* os.environ.get('CONVERSION_DATE', 'unknown')
ConversionDate ==
    IF "CONVERSION_DATE" \in DOMAIN environ THEN environ["CONVERSION_DATE"] ELSE "unknown"

\* the header of _postprocess_python_code
Header ==
    "# This file was automatically converted from Perl to Python\n"
    \o "# by the Perl to Python Conversion Agent\n"
    \o "# Conversion date: " \o ConversionDate \o "\n"
    \o "# Note: This is an automated conversion and may require manual review\n\n"

\* a post-processing that lets the exception of the hook through
PostprocessUncaught(code, hook, result) ==
    [raised |-> hook = "raises", text |-> IF hook = "returns" THEN result ELSE Header \o code]

\* _postprocess_python_code(python_code): the text it returns, and whether it
\* raises instead. hook is "absent" when the post_process module is not found
\* (POST_PROCESS_AVAILABLE is False, as in this repository), and else what the
\* call of the hook does: "returns", result being the text it returns, or
\* "raises"
PostprocessPythonCode(code, hook, result) ==
    [raised |-> FALSE, text |-> IF hook = "returns" THEN result ELSE Header \o code]

\* the texts a hook that returns may return for a text: the text itself, or
\* the text with something changed
HookResults(text) == {text, text \o "\n# post-processed"}

\* convert_code(perl_code), without the hook
ConvertCode(text, add_exception_handling) ==
    PostprocessPythonCode(
        GeneratePythonCode(ParsePerlCode(PreprocessPerlCode(text)), add_exception_handling),
        "absent", "").text

---------------------------------------------------------------------------
(* The extractor, step by step, on every text built from a few pieces.     *)

\* how many pieces an input text is built from
MaxSegments == 4

\* the pieces: a subroutine header, an import, a package declaration, braces,
\* an ordinary character and a blank
Segments == {"sub f{", "use A;", "package P;", "{", "}", "x", " "}

RECURSIVE TextsOfLen(_)
TextsOfLen(n) ==
    IF n = 0 THEN {""} ELSE {t \o g : t \in TextsOfLen(n - 1), g \in Segments}

ParseTexts == UNION {TextsOfLen(n) : n \in 0..MaxSegments}

\* no call of convert_file
NoFileArgs == [perl_file_path |-> "", output_file_path |-> ""]

\* no file and no directory
NoFiles == [dirs |-> {}, files |-> [f \in {} |-> ""]]

\* process_directory was not called
NoBatch ==
    [dry_run |-> FALSE, recursive |-> FALSE, stack |-> <<>>,
     attempted |-> [p \in {} |-> 0], returned |-> <<>>]

\* an environment without CONVERSION_DATE
NoEnviron == [k \in {} |-> ""]

\* the limit of CPython from 3.10.7 on for int(s), in digits
\* (sys.int_info.default_max_str_digits), and no body given to the rewriter
NotGenerating == int_max_str_digits = 4300 /\ generated = 0

\* the state outside a conversion: nothing on disk, no batch, no call made
\* yet on a converter just constructed
NothingOutside ==
    /\ fs = NoFiles
    /\ batch = NoBatch
    /\ environ = NoEnviron
    /\ calls = <<>>
    /\ perl_builtins_map = PerlBuiltinsMap
    /\ file_args = NoFileArgs
    /\ exception = ""
    /\ NotGenerating

\* no run of the generated statements yet
NoRun == [argv |-> <<>>, raised |-> "", names |-> [k \in {} |-> TRUE]]

\* the rewriter's record of a step, before any step
NoStep == [rule |-> "none", line |-> "", out |-> <<>>, indent |-> 0,
           pushed |-> 0, popped |-> 0, pushes |-> 0, pops |-> 0]

InitParse ==
    /\ pc = "parse_packages"
    /\ perl_code \in ParseTexts
    /\ elements = <<>>
    /\ config = EmptyConfig
    /\ python_code = ""
    /\ perl_body = ""
    /\ todo = <<>>
    /\ lines = <<>>
    /\ current_indent = 0
    /\ indent_stack = <<>>
    /\ last = NoStep
    /\ post_process = "absent"
    /\ hook_args = <<>>
    /\ run = NoRun
    /\ NothingOutside

ParsePackages ==
    /\ pc = "parse_packages"
    /\ elements' = ExtractPackages(perl_code)
    /\ pc' = "parse_imports"
    /\ UNCHANGED <<perl_code, config, python_code, perl_body, todo, lines,
                   current_indent, indent_stack, last, post_process, hook_args, run, outside>>

ParseImports ==
    /\ pc = "parse_imports"
    /\ elements' = elements \o ExtractImports(perl_code)
    /\ pc' = "parse_subs"
    /\ UNCHANGED <<perl_code, config, python_code, perl_body, todo, lines,
                   current_indent, indent_stack, last, post_process, hook_args, run, outside>>

ParseSubs ==
    /\ pc = "parse_subs"
    /\ elements' = elements \o ExtractSubs(perl_code)
    /\ pc' = "parse_main"
    /\ UNCHANGED <<perl_code, config, python_code, perl_body, todo, lines,
                   current_indent, indent_stack, last, post_process, hook_args, run, outside>>

ParseMainScript ==
    /\ pc = "parse_main"
    /\ elements' = WithMainScript(perl_code, elements)
    /\ pc' = "parse_sort"
    /\ UNCHANGED <<perl_code, config, python_code, perl_body, todo, lines,
                   current_indent, indent_stack, last, post_process, hook_args, run, outside>>

ParseSort ==
    /\ pc = "parse_sort"
    /\ elements' = SortElements(elements)
    /\ pc' = "parsed"
    /\ UNCHANGED <<perl_code, config, python_code, perl_body, todo, lines,
                   current_indent, indent_stack, last, post_process, hook_args, run, outside>>

NextParse ==
    \/ ParsePackages
    \/ ParseImports
    \/ ParseSubs
    \/ ParseMainScript
    \/ ParseSort

SpecParse == InitParse /\ [][NextParse]_vars

---------------------------------------------------------------------------
(* Claims about the extractor.                                             *)

\* the indices of the elements of the given type
OfType(els, ty) == {i \in 1..Len(els) : els[i].type = ty}

\* the elements with a real span
Spanned(els) == {i \in 1..Len(els) : els[i].type # "main_script"}

\* opening braces minus closing braces among the offsets a..j of text
NetBraces(text, a, j) ==
    Cardinality({k \in a..j : At(text, k) = "{"})
    - Cardinality({k \in a..j : At(text, k) = "}"})

\* the offsets at which the block opened just before start_pos is closed again
Closers(text, start_pos) ==
    {j \in start_pos..(Len(text) - 1) : NetBraces(text, start_pos, j) = -1}

\* the offset just after the opening brace of the subroutine element e
BodyStart(text, e) == MatchAt(SubHeaderRe, text, e.start).e

SubsExtracted == pc \in {"parse_main", "parse_sort", "parsed"}

\* C3: for a subroutine whose braces balance, the body ends exactly at the
\* closing brace that matches the opening brace of the definition: the body is
\* the text between the two and the element ends just after the closing brace.
BalancedBraceBody ==
    SubsExtracted =>
      \A i \in OfType(elements, "subroutine") :
        LET e == elements[i]
            start_pos == BodyStart(perl_code, e)
            cl == Closers(perl_code, start_pos)
        IN cl # {} =>
             LET close == CHOOSE j \in cl : \A k \in cl : j <= k IN
             /\ At(perl_code, close) = "}"
             /\ e.end = close + 1
             /\ e.body = Slice(perl_code, start_pos, close)

\* C3 witness: a subroutine whose body holds a nested block has been
\* extracted, the body ending at the second closing brace
NestedBodyExtracted ==
    /\ pc = "parsed"
    /\ \E i \in OfType(elements, "subroutine") :
         /\ Contains(elements[i].body, "{")
         /\ Contains(elements[i].body, "}")
         /\ At(perl_code, elements[i].end - 1) = "}"

\* C4 (as claimed): when the braces never balance the body is the text
\* from just after the opening brace to the end of the text, where the
\* element's span ends.
UnbalancedBodyRunsToEnd ==
    SubsExtracted =>
      \A i \in OfType(elements, "subroutine") :
        LET e == elements[i]
            start_pos == BodyStart(perl_code, e)
        IN Closers(perl_code, start_pos) = {} =>
             /\ e.body = SliceFrom(perl_code, start_pos)
             /\ e.end = Len(perl_code)

\* the offsets inside the span of some package, import or subroutine
Covered(text, els) ==
    {p \in 0..(Len(text) - 1) : \E i \in Spanned(els) : els[i].start <= p /\ p < els[i].end}

RECURSIVE Uncovered(_, _, _)
\* the characters of text from offset p on that lie in no span, in order
Uncovered(text, cov, p) ==
    IF p >= Len(text) THEN ""
    ELSE (IF p \in cov THEN "" ELSE At(text, p)) \o Uncovered(text, cov, p + 1)

\* C5 (as claimed): the main script's body is the text outside every
\* captured span, in order and trimmed, and the element is left out when that
\* text is empty.
MainScriptIsComplement ==
    pc = "parsed" =>
      LET rest == Strip(Uncovered(perl_code, Covered(perl_code, elements), 0))
          mains == OfType(elements, "main_script")
      IN /\ (rest = "") <=> (mains = {})
         /\ \A i \in mains : elements[i].body = rest

\* C6 (as claimed): the spans of the package, import and subroutine elements
\* are pairwise non-overlapping.
SpansDisjoint ==
    pc = "parsed" =>
      \A i, j \in Spanned(elements) :
        i # j => \/ elements[i].end <= elements[j].start
                 \/ elements[j].end <= elements[i].start

SortedByStart(els) ==
    \A i, j \in 1..Len(els) : i < j => els[i].start <= els[j].start

\* C7 (as claimed): the returned list is sorted by start offset and the
\* main-script element, when there is one, is its last element.
SortedWithMainLast ==
    pc = "parsed" =>
      /\ SortedByStart(elements)
      /\ OfType(elements, "main_script") # {} =>
           elements[Len(elements)].type = "main_script"

\* C7 (amended): the returned list is sorted by start offset and the
\* main-script element, when there is one, is its first element and the only
\* one of its type: its start of -1 sorts before every real offset.
SortedWithMainFirst ==
    pc = "parsed" =>
      /\ SortedByStart(elements)
      /\ OfType(elements, "main_script") \subseteq {1}

\* C7 witness: a list with a main script and two elements with spans that
\* were found in another order than their offsets
MainScriptAmongElements ==
    /\ pc = "parsed"
    /\ Len(elements) >= 3
    /\ OfType(elements, "main_script") # {}
    /\ elements[2].type = "subroutine"
    /\ elements[3].type \in {"package", "import"}

---------------------------------------------------------------------------
(* The line rewriter, one line at a time, on every body of a few lines.    *)

\* how many lines a body has at most
MaxLines == 2

\* the lines a body is built from: one line for each rule of the loop, a
\* one-line block, and a line that closes one block and opens the next
BodyLines ==
    {"", "  # c", "}", "if ($x) { die \"m\"; }", "unless ($x) {", "if ($x) {",
     "foreach my $v (@a) {", "while ($x) {", "until ($x) {", "my ($a) = @_;",
     "  $y = 1;", "  print \"h\";", "if ($x) { $y = 1; }", "} elsif ($x) {"}

RECURSIVE BodiesOfLen(_)
BodiesOfLen(n) ==
    IF n = 1 THEN BodyLines
    ELSE {b \o "\n" \o l : b \in BodiesOfLen(n - 1), l \in BodyLines}

Bodies == UNION {BodiesOfLen(n) : n \in 1..MaxLines}

InitRewrite ==
    /\ pc = "rewrite_begin"
    /\ perl_body \in Bodies
    /\ perl_code = ""
    /\ elements = <<>>
    /\ config = EmptyConfig
    /\ python_code = ""
    /\ todo = <<>>
    /\ lines = <<>>
    /\ current_indent = 0
    /\ indent_stack = <<>>
    /\ last = NoStep
    /\ post_process = "absent"
    /\ hook_args = <<>>
    /\ run = NoRun
    /\ NothingOutside

\* lines 580-634: the statements before the loop
RewriteBegin ==
    /\ pc = "rewrite_begin"
    /\ perl_body' = StripUseRequire(perl_body)
    /\ lines' = ImportLines(perl_body')
    /\ current_indent' = 0
    /\ indent_stack' = <<>>
    /\ todo' = Split(Strip(perl_body'), "\n")
    /\ pc' = "rewrite_loop"
    /\ UNCHANGED <<perl_code, config, elements, python_code, last, post_process, hook_args, run, outside>>

\* the assignments of one iteration on line, o being its outcome
Commit(line, o) ==
    /\ lines' = lines \o o.out
    /\ current_indent' = o.ci
    /\ indent_stack' = o.st
    /\ last' = [rule |-> o.rule, line |-> line, out |-> o.out, indent |-> current_indent,
                pushed |-> IF Len(o.st) > Len(indent_stack)
                           THEN Len(o.st) - Len(indent_stack) ELSE 0,
                popped |-> IF Len(o.st) < Len(indent_stack)
                           THEN Len(indent_stack) - Len(o.st) ELSE 0,
                pushes |-> IF Len(o.st) > Len(indent_stack)
                           THEN last.pushes + Len(o.st) - Len(indent_stack)
                           ELSE last.pushes,
                pops |-> IF Len(o.st) < Len(indent_stack)
                         THEN last.pops + Len(indent_stack) - Len(o.st) ELSE last.pops]

\* where an iteration with the outcome o leaves the call: in the loop, or
\* out of convert_code with the exception it raised
CommitOrRaise(line, o) ==
    /\ Commit(line, o)
    /\ pc' = (IF Raised(o) THEN "raised" ELSE pc)
    /\ exception' = (IF Raised(o) THEN ExceptionOf(o) ELSE exception)

\* lines 636-945: one iteration of the loop
RewriteStep ==
    /\ pc = "rewrite_loop"
    /\ Len(todo) > 0
    /\ CommitOrRaise(todo[1], RewriteLine(todo[1], current_indent, indent_stack, perl_body))
    /\ todo' = Tail(todo)
    /\ UNCHANGED <<perl_code, config, elements, python_code, perl_body, post_process,
                   hook_args, run, fs, batch, environ, calls, perl_builtins_map, file_args,
                   generation>>

\* line 947: return lines
RewriteReturn ==
    /\ pc = "rewrite_loop"
    /\ Len(todo) = 0
    /\ pc' = "rewrite_done"
    /\ UNCHANGED <<perl_code, config, elements, python_code, perl_body, todo, lines,
                   current_indent, indent_stack, last, post_process, hook_args, run, outside>>

NextRewrite ==
    \/ RewriteBegin
    \/ RewriteStep
    \/ RewriteReturn

SpecRewrite == InitRewrite /\ [][NextRewrite]_vars

---------------------------------------------------------------------------
(* Claims about the line rewriter.                                         *)

\* the lines of the body, as the loop takes them
BodyLinesOf(body) == Split(Strip(body), "\n")

\* the lines the loop has processed so far
Processed ==
    IF pc = "rewrite_begin" THEN <<>>
    ELSE SubSeq(BodyLinesOf(perl_body), 1, Len(BodyLinesOf(perl_body)) - Len(todo))

\* the number of occurrences of the character c in s
Count(s, c) == Cardinality({i \in 1..Len(s) : SubSeq(s, i, i) = c})

\* opening braces minus closing braces in s
Nesting(s) == Count(s, "{") - Count(s, "}")

\* no closing brace of s comes before the opening brace it closes
WellNested(s) == \A n \in 0..Len(s) : Nesting(SubSeq(s, 1, n)) >= 0

\* the rules that open a block
Openers == {"unless", "if", "for", "while", "until"}

\* C1: however far the loop has got, the pops so far do not exceed the pushes
\* so far, every pop took an entry off the stack (the stack holds the pushes
\* that were not popped), and current_indent is a non-negative multiple of the
\* indentation unit, equal to the unit times the length of indent_stack.
IndentFollowsStack ==
    /\ last.pops <= last.pushes
    /\ Len(indent_stack) = last.pushes - last.pops
    /\ current_indent >= 0
    /\ current_indent % IndentUnit = 0
    /\ current_indent = IndentUnit * Len(indent_stack)

\* a block was opened after a lone '}' had met the empty stack and popped
\* nothing
OpenedAfterStrayClose ==
    /\ Len(Processed) = 2
    /\ Strip(Processed[1]) = "}"
    /\ last.rule \in Openers
    /\ last.pops = 0
    /\ indent_stack = <<0>>
    /\ current_indent = IndentUnit

\* C2: after any prefix of the lines of a body in which no brace closes before
\* it opens, the depth of indent_stack is the number of opening braces minus
\* the number of closing braces of the prefix; when the braces of the whole
\* body balance, the stack is empty and current_indent is 0 at the end.
StackDepthIsNesting ==
    WellNested(Join(Processed, "\n")) =>
        /\ Len(indent_stack) = Nesting(Join(Processed, "\n"))
        /\ (pc = "rewrite_done" /\ Nesting(Join(Processed, "\n")) = 0
            => indent_stack = <<>> /\ current_indent = 0)

\* the rules in the order the loop tries them
RuleOrder ==
    <<"blank", "comment", "close", "die", "unless", "if", "for", "while", "until",
      "tuple", "pipeline">>

\* the test of a rule on a line; every line passes that of the pipeline
Passes(rule, line) ==
    CASE rule = "blank" -> Strip(line) = ""
      [] rule = "comment" -> StartsWithAt(Strip(line), 0, "#")
      [] rule = "close" -> Strip(line) = "}"
      [] rule = "die" -> Contains(line, "die") /\ Search(DieRe, line).ok
      [] rule = "unless" -> Search(UnlessRe, line).ok
      [] rule = "if" -> Search(IfRe, line).ok
      [] rule = "for" -> Search(ForRe, line).ok
      [] rule = "while" -> Search(WhileRe, line).ok
      [] rule = "until" -> Search(UntilRe, line).ok
      [] rule = "tuple" -> Search(TupleRe, line).ok
      [] rule = "pipeline" -> TRUE

\* C8: the rule that handled the last line is the first in the order of the
\* loop whose test the line passes; only a block opener pushes, and once; no
\* rule emits more than one line; a line that passes the test of the die rule
\* and that of a block opener, and of no rule before them, emits the raise
\* statement alone and pushes nothing.
EarliestRuleWins ==
    last.rule # "none" =>
        /\ \E k \in 1..Len(RuleOrder) :
              /\ RuleOrder[k] = last.rule
              /\ Passes(RuleOrder[k], last.line)
              /\ \A j \in 1..(k - 1) : ~Passes(RuleOrder[j], last.line)
        /\ last.pushed = (IF last.rule \in Openers THEN 1 ELSE 0)
        /\ Len(last.out) <= 1
        /\ (/\ Passes("die", last.line)
            /\ \E r \in Openers : Passes(r, last.line)
            /\ \A j \in 1..3 : ~Passes(RuleOrder[j], last.line))
           => /\ last.pushed = 0
              /\ Len(last.out) = 1
              /\ StartsWithAt(last.out[1], last.indent, "raise Exception(")

\* a line that is a die statement inside a one-line if block was handled
DieInsideBlockHandled ==
    /\ last.rule = "die"
    /\ Passes("if", last.line)
    /\ last.pushed = 0

\* C9: every non-blank line emitted for a statement of the body starts with
\* exactly as many spaces as current_indent was when the statement was met,
\* and a character that is not a space after them.
EmittedAtCurrentIndent ==
    \A i \in 1..Len(last.out) :
        Strip(last.out[i]) # "" => LeadingSpaces(last.out[i]) = last.indent

---------------------------------------------------------------------------
(* convert_code, one stage at a time, on every text of a few pieces.       *)

\* how many pieces an input text is built from
MaxPieces == 2

\* the pieces: blanks, a lone closing brace, a comment, statements without and
\* with error handling, an import and a subroutine
ConvertPieces ==
    {" ", "\n", "}", "# c\n", "$y = 1;\n", "die \"m\";\n", "use JSON;\n",
     "sub f { $y = 1; }\n"}

RECURSIVE ConvertTextsOfLen(_)
ConvertTextsOfLen(n) ==
    IF n = 0 THEN {""} ELSE {t \o g : t \in ConvertTextsOfLen(n - 1), g \in ConvertPieces}

ConvertTexts == UNION {ConvertTextsOfLen(n) : n \in 0..MaxPieces}

\* the configurations: none, and the option set to each of its values
ConvertConfigs ==
    {EmptyConfig, [options |-> [add_exception_handling |-> TRUE]],
     [options |-> [add_exception_handling |-> FALSE]]}

InitConvert ==
    /\ pc = "convert_preprocess"
    /\ perl_code \in ConvertTexts
    /\ config \in ConvertConfigs
    /\ elements = <<>>
    /\ python_code = ""
    /\ perl_body = ""
    /\ todo = <<>>
    /\ lines = <<>>
    /\ current_indent = 0
    /\ indent_stack = <<>>
    /\ last = NoStep
    /\ post_process = "absent"
    /\ hook_args = <<>>
    /\ run = NoRun
    /\ NothingOutside

\* line 224: preprocessed_code = self._preprocess_perl_code(perl_code)
ConvertPreprocess ==
    /\ pc = "convert_preprocess"
    /\ perl_code' = PreprocessPerlCode(perl_code)
    /\ pc' = "convert_parse"
    /\ UNCHANGED <<config, elements, python_code, perl_body, todo, lines,
                   current_indent, indent_stack, last, post_process, hook_args, run, outside>>

\* line 227: parsed_elements = self._parse_perl_code(preprocessed_code)
ConvertParse ==
    /\ pc = "convert_parse"
    /\ elements' = ParsePerlCode(perl_code)
    /\ pc' = "convert_generate"
    /\ UNCHANGED <<perl_code, config, python_code, perl_body, todo, lines,
                   current_indent, indent_stack, last, post_process, hook_args, run, outside>>

\* line 230: python_code = self._generate_python_code(parsed_elements)
ConvertGenerate ==
    /\ pc = "convert_generate"
    /\ python_code' = GeneratePythonCode(elements, AddExceptionHandling(config))
    /\ pc' = "convert_postprocess"
    /\ UNCHANGED <<perl_code, config, elements, perl_body, todo, lines,
                   current_indent, indent_stack, last, post_process, hook_args, run, outside>>

\* the assignments of the last stage, o being what _postprocess_python_code
\* gives: the text it returns, or the exception that leaves convert_code
PostprocessReturn(o) ==
    /\ python_code' = (IF o.raised THEN python_code ELSE o.text)
    /\ pc' = (IF o.raised THEN "raised" ELSE "converted")

\* line 233: final_code = self._postprocess_python_code(python_code); the hook
\* is called with the text under its header when the module was found
ConvertPostprocess ==
    /\ pc = "convert_postprocess"
    /\ \E result \in HookResults(Header \o python_code) :
          PostprocessReturn(PostprocessPythonCode(python_code, post_process, result))
    /\ hook_args' = (IF post_process = "absent" THEN hook_args
                     ELSE Append(hook_args, Header \o python_code))
    /\ UNCHANGED <<perl_code, config, elements, perl_body, todo, lines,
                   current_indent, indent_stack, last, post_process, run, outside>>

NextConvert ==
    \/ ConvertPreprocess
    \/ ConvertParse
    \/ ConvertGenerate
    \/ ConvertPostprocess

SpecConvert == InitConvert /\ [][NextConvert]_vars

---------------------------------------------------------------------------
(* Claims about convert_code.                                              *)

\* the input held no package, import or subroutine
NoConstruct == \A i \in 1..Len(elements) : elements[i].type = "main_script"

\* a line that is a statement: not blank and not a comment
IsStatement(l) == Strip(l) # "" /\ At(Strip(l), 0) # "#"

\* a statement that opens a block
OpensBlock(l) == IsStatement(l) /\ At(Strip(l), Len(Strip(l)) - 1) = ":"

\* every block opener among ls is followed by a statement indented under it
BlocksFilled(ls) ==
    \A i \in 1..Len(ls) :
        OpensBlock(ls[i]) =>
            \E j \in (i + 1)..Len(ls) :
                /\ IsStatement(ls[j])
                /\ LeadingSpaces(ls[j]) > LeadingSpaces(ls[i])
                /\ \A k \in (i + 1)..(j - 1) : ~IsStatement(ls[k])

\* the entry guard is the last line that is not indented
EndsWithGuard(ls) ==
    \E g \in 1..Len(ls) :
        /\ ls[g] = "if __name__ == '__main__':"
        /\ \A j \in (g + 1)..Len(ls) : LeadingSpaces(ls[j]) > 0

\* C10: for an input without package, import and subroutine, the output of
\* convert_code holds the header banner and ends with the entry guard, and
\* every block opener in it (the guard, try:) is followed by an indented
\* statement
GuardBlockIsValid ==
    (pc = "converted" /\ NoConstruct) =>
        /\ StartsWithAt(python_code, 0, Header)
        /\ Contains(python_code, "# Generated by Perl to Python Converter\n")
        /\ EndsWithGuard(Split(python_code, "\n"))
        /\ BlocksFilled(Split(python_code, "\n"))

\* the first n lines of the text s
FirstLines(s, n) == SubSeq(Split(s, "\n"), 1, n)

\* C11: the text convert_code returns begins with the shebang line, the
\* encoding line, the generation line, the conversion date comment and the
\* review note, in this order, and the assembled code follows them.
BannerStartsWithShebang ==
    pc = "converted" =>
        /\ Len(Split(python_code, "\n")) >= 5
        /\ FirstLines(python_code, 3) =
               <<"#!/usr/bin/env python3", "# -*- coding: utf-8 -*-",
                 "# Generated by Perl to Python Converter">>
        /\ StartsWithAt(Split(python_code, "\n")[4], 0, "# Conversion date: ")
        /\ StartsWithAt(Split(python_code, "\n")[5], 0, "# Note: ")

---------------------------------------------------------------------------
(* _generate_python_code on the elements of a Perl text, the main script   *)
(* at any place of the list.                                               *)

\* how many elements other than the main script a list has at most
MaxElements == 2

\* a text with a package, the imports the assembler knows and one it does not
\* know, one of them twice, and subroutines that take their parameters in
\* each of the ways the assembler looks for
PoolText ==
    "package P;\nuse Data::Dumper;\nuse Getopt::Long;\nuse File::Basename;\n"
    \o "use Time::Local;\nuse JSON;\nuse strict;\nuse warnings;\nuse Foo::Bar;\nuse JSON;\n"
    \o "sub f { my ($a, $b) = @_; return $a; }\n"
    \o "sub g { my $b = $_[1]; my $a = $_[0]; return $a; }\n"
    \o "sub v { print @_; }\n"
    \o "sub n { $y = 1; }\n"
    \o "sub d { die \"m\"; }\n"
    \o "x;\n"

\* the elements the extractor finds in the text
Pool == ParsePerlCode(PoolText)

\* the elements of the pool at the indices in S, in the order of the pool
ElementsAt(S) ==
    [k \in 1..Cardinality(S) |->
        Pool[CHOOSE i \in S : Cardinality({j \in S : j < i}) = k - 1]]

\* the list els with x put in after its k-th element
InsertAt(els, k, x) == SubSeq(els, 1, k) \o <<x>> \o SubSeq(els, k + 1, Len(els))

\* the lists of up to MaxElements elements of the pool other than the main
\* script, in the order of the source
ListsWithoutMain ==
    {ElementsAt(S) : S \in {U \in SUBSET {i \in 1..Len(Pool) : Pool[i].type # "main_script"} :
                               Cardinality(U) <= MaxElements}}

\* these lists, and each of them with the main script at any place
ElementLists ==
    ListsWithoutMain
    \cup UNION {{InsertAt(els, k, Pool[i]) :
                   k \in 0..Len(els),
                   i \in {j \in 1..Len(Pool) : Pool[j].type = "main_script"}} :
               els \in ListsWithoutMain}

\* the configurations: a table of module mappings without the option, and
\* the option set to false without a table
AssembleConfigs ==
    {[module_mappings |-> ("JSON" :> "import simplejson") @@ ("Foo::Bar" :> "import foo_bar")],
     [options |-> [add_exception_handling |-> FALSE]]}

InitAssemble ==
    /\ pc = "assemble"
    /\ elements \in ElementLists
    /\ config \in AssembleConfigs
    /\ perl_code = PoolText
    /\ python_code = ""
    /\ perl_body = ""
    /\ todo = <<>>
    /\ lines = <<>>
    /\ current_indent = 0
    /\ indent_stack = <<>>
    /\ last = NoStep
    /\ post_process = "absent"
    /\ hook_args = <<>>
    /\ run = NoRun
    /\ NothingOutside

\* python_code = self._generate_python_code(parsed_elements)
Assemble ==
    /\ pc = "assemble"
    /\ python_code' = GeneratePythonCode(elements, AddExceptionHandling(config))
    /\ pc' = "assembled"
    /\ UNCHANGED <<perl_code, config, elements, perl_body, todo, lines,
                   current_indent, indent_stack, last, post_process, hook_args, run, outside>>

NextAssemble == Assemble

SpecAssemble == InitAssemble /\ [][NextAssemble]_vars

---------------------------------------------------------------------------
(* Claims about the assembler.                                             *)

\* the lines of ls that are not indented and not empty
TopLevel(ls) == SelectSeq(ls, LAMBDA l : l # "" /\ LeadingSpaces(l) = 0)

\* the section a top-level line belongs to: 0 the three fixed lines, 1 the
\* imports, 2 the package banners, 3 the function definitions, 4 the entry
\* guard, 5 anything else
SectionOf(l) ==
    IF l \in {"#!/usr/bin/env python3", "# -*- coding: utf-8 -*-",
              "# Generated by Perl to Python Converter"} THEN 0
    ELSE IF StartsWithAt(l, 0, "import ") \/ StartsWithAt(l, 0, "# TODO: Import equivalent")
    THEN 1
    ELSE IF \/ StartsWithAt(l, 0, "# Perl package: ")
            \/ l = "# In Python, we use modules instead of packages" THEN 2
    ELSE IF StartsWithAt(l, 0, "def ") THEN 3
    ELSE IF l = "if __name__ == '__main__':" THEN 4
    ELSE 5

\* the elements of els of the type ty, in the order of els
ElementsOfType(els, ty) == SelectSeq(els, LAMBDA e : e.type = ty)

\* the top-level lines t come section after section, with a definition for
\* each subroutine of els in their order, a banner for each package, and the
\* entry guard once, at the end
InSectionOrder(t, els) ==
    /\ \A i \in 1..Len(t) : SectionOf(t[i]) <= 4
    /\ \A i, j \in 1..Len(t) : i < j => SectionOf(t[i]) <= SectionOf(t[j])
    /\ Len(SelectSeq(t, LAMBDA l : SectionOf(l) = 4)) = 1
    /\ SectionOf(t[Len(t)]) = 4
    /\ Len(SelectSeq(t, LAMBDA l : SectionOf(l) = 3)) = Len(ElementsOfType(els, "subroutine"))
    /\ \A k \in 1..Len(ElementsOfType(els, "subroutine")) :
          StartsWithAt(SelectSeq(t, LAMBDA l : SectionOf(l) = 3)[k], 0,
                       "def " \o ElementsOfType(els, "subroutine")[k].name \o "(")
    /\ Len(SelectSeq(t, LAMBDA l : StartsWithAt(l, 0, "# Perl package: ")))
           = Len(ElementsOfType(els, "package"))

\* C12: whatever the place of the main script in the list of elements, the
\* assembler emits the import lines, then a banner for each package, then one
\* function definition for each subroutine in the order of the source, then
\* the entry guard, once and as the last section.
SectionsInOrder ==
    pc = "assembled" => InSectionOrder(TopLevel(Split(python_code, "\n")), elements)

\* the main script stood between an import and a subroutine in the list
MainScriptInTheMiddle ==
    /\ pc = "assembled"
    /\ Len(elements) = 3
    /\ elements[1].type = "import"
    /\ elements[2].type = "main_script"
    /\ elements[3].type = "subroutine"

\* the import line the claim gives for a module
ExpectedImport(module) ==
    IF module = "Data::Dumper" THEN "import pprint"
    ELSE IF module = "Getopt::Long" THEN "import argparse"
    ELSE IF module = "File::Basename" THEN "import os.path"
    ELSE IF module = "Time::Local" THEN "import time"
    ELSE IF module = "JSON" THEN "import json"
    ELSE "# TODO: Import equivalent for Perl module '" \o module \o "'"

\* the lines t are the import lines of the import elements among els, each
\* once and in the order of sorted()
ImportsOf(t, els) ==
    /\ \A i, j \in 1..Len(t) : i < j => StrLess(t[i], t[j])
    /\ {t[i] : i \in 1..Len(t)} =
           {ExpectedImport(els[i].module) :
               i \in {j \in 1..Len(els) : /\ els[j].type = "import"
                                          /\ els[j].module \notin {"strict", "warnings"}}}

\* C13: the import section holds each import line once, in sorted order:
\* nothing for strict and warnings, the Python module for Data::Dumper,
\* Getopt::Long, File::Basename, Time::Local and JSON, and for any other
\* module a comment that names it.
ImportsSortedAndUnique ==
    pc = "assembled" =>
        ImportsOf(SelectSeq(TopLevel(Split(python_code, "\n")), LAMBDA l : SectionOf(l) = 1),
                  elements)

\* the same module was imported twice
SameModuleTwice ==
    /\ pc = "assembled"
    /\ Len(elements) = 2
    /\ elements[1].type = "import"
    /\ elements[2].type = "import"
    /\ elements[1].module = "JSON"
    /\ elements[2].module = "JSON"
    /\ Contains(python_code, "import json")

\* the line l is among the lines ls
HasLine(ls, l) == \E k \in 1..Len(ls) : ls[k] = l

\* C14: when the configuration holds a table of module mappings, the import
\* line emitted for a module that is a key of the table is the import
\* statement the table gives for it.
ModuleMappingsConsulted ==
    (pc = "assembled" /\ "module_mappings" \in DOMAIN config) =>
        \A i \in 1..Len(elements) :
            (/\ elements[i].type = "import"
             /\ elements[i].module \in DOMAIN config.module_mappings)
            => HasLine(Split(python_code, "\n"), config.module_mappings[elements[i].module])

\* the statements of a body: its text between the semicolons, stripped
StatementsOf(body) ==
    LET parts == Split(body, ";") IN [k \in 1..Len(parts) |-> Strip(parts[k])]

\* the names in the statement my ($a, $b, ...) = @_ of the body, in order
DestructuredNames(stmts) ==
    IF \E k \in 1..Len(stmts) : StartsWithAt(stmts[k], 0, "my (") /\ Contains(stmts[k], ") = @_")
    THEN LET st == stmts[CHOOSE k \in 1..Len(stmts) :
                           StartsWithAt(stmts[k], 0, "my (") /\ Contains(stmts[k], ") = @_")]
             parts == Split(Slice(st, 4, Find(st, ")", 0)), ",")
         IN [i \in 1..Len(parts) |-> LStripOf(Strip(parts[i]), {"$"})]
    ELSE <<>>

\* the statement st is my $x = $_[i]
IsIndexAssign(st, i) ==
    LET tail == " = $_[" \o FormatInt(i) \o "]"
    IN /\ StartsWithAt(st, 0, "my $")
       /\ Len(st) >= Len(tail)
       /\ Find(st, tail, 0) >= 0
       /\ Find(st, tail, 0) + Len(tail) = Len(st)

RECURSIVE IndexedNames(_, _)
\* the names x of the statements my $x = $_[i] of the body, for i from the
\* given index up to 9, in the order of i
IndexedNames(stmts, i) ==
    IF i > 9 THEN <<>>
    ELSE (IF \E k \in 1..Len(stmts) : IsIndexAssign(stmts[k], i)
          THEN LET st == stmts[CHOOSE k \in 1..Len(stmts) : IsIndexAssign(stmts[k], i)]
               IN <<Slice(st, 4, Find(st, " = ", 0))>>
          ELSE <<>>)
         \o IndexedNames(stmts, i + 1)

\* the body uses @_ or $_[i]
UsesArguments(body) ==
    Contains(body, "@_") \/ \E i \in 0..9 : Contains(body, "$_[" \o FormatInt(i) \o "]")

\* the parameter list the claim gives for a body
ExpectedParameters(body) ==
    LET stmts == StatementsOf(body)
        destructured == DestructuredNames(stmts)
        indexed == IndexedNames(stmts, 0)
    IN IF destructured # <<>> THEN Join(destructured, ", ")
       ELSE IF indexed # <<>> THEN Join(indexed, ", ")
       ELSE IF UsesArguments(body) THEN "*args"
       ELSE ""

\* the lines of the block under the k-th line of ls: those up to the next
\* line that is not empty and not indented
BlockUnder(ls, k) ==
    SubSeq(ls, k + 1,
           Min({m \in (k + 1)..(Len(ls) + 1) :
                   m = Len(ls) + 1 \/ (ls[m] # "" /\ LeadingSpaces(ls[m]) = 0)}) - 1)

\* the line l does not mention the arguments
ArgumentFree(l) == ~Contains(l, "args") /\ ~Contains(l, "@_") /\ ~Contains(l, "$_[")

\* among the lines ls the subroutine el is defined with the parameters the
\* claim gives, and when they are named its block does not mention the
\* arguments any more
DefinedAsClaimed(ls, el) ==
    LET expected == ExpectedParameters(el.body)
    IN \E k \in 1..Len(ls) :
           /\ ls[k] = "def " \o el.name \o "(" \o expected \o "):"
           /\ expected \notin {"", "*args"} =>
                  LET block == BlockUnder(ls, k)
                  IN \A j \in 1..Len(block) : ArgumentFree(block[j])

\* C15: the parameters of an emitted function are the names of
\* my ($a, $b, ...) = @_; in order, or else the names of the statements
\* my $x = $_[i] in the order of i, or else *args when the body uses @_ or
\* $_[i], or else none; when the parameters are named, the statements that
\* extract them are not part of the rewritten body.
ParametersAsClaimed ==
    pc = "assembled" =>
        \A i \in 1..Len(elements) :
            elements[i].type = "subroutine" =>
                DefinedAsClaimed(Split(python_code, "\n"), elements[i])

\* a subroutine that takes its parameters by index, the second one first
IndexedParametersSorted ==
    /\ pc = "assembled"
    /\ \E i \in 1..Len(elements) :
          /\ elements[i].type = "subroutine"
          /\ Find(elements[i].body, "$_[1]", 0) >= 0
          /\ Find(elements[i].body, "$_[1]", 0) < Find(elements[i].body, "$_[0]", 0)
    /\ Contains(python_code, "def g(a, b):")

---------------------------------------------------------------------------
(* Claims about the exception scaffold.                                    *)

\* the body holds one of the idioms that signal an error
HasIdiom(body) ==
    \E w \in {"die", "croak", "confess", "warn", "eval {", "try {"} : Contains(body, w)

\* the option add_exception_handling, true when the configuration does not
\* give it
OptionEnabled ==
    ~(/\ "options" \in DOMAIN config
      /\ "add_exception_handling" \in DOMAIN config.options
      /\ ~config.options.add_exception_handling)

\* the rewritten lines ls inside the scaffold the claim describes
InsideScaffold(ls) ==
    <<"try:">> \o [i \in 1..Len(ls) |-> "    " \o ls[i]]
    \o <<"except ValueError as e:", "    print(f\"Value Error: {e}\")", "    raise",
         "except FileNotFoundError as e:", "    print(f\"File Error: {e}\")", "    raise",
         "except Exception as e:", "    print(f\"Error: {e}\")", "    raise">>

\* the lines the claim gives for a body: its rewritten lines, inside the
\* scaffold when the body signals no error and the option is on
ClaimedBody(body) ==
    IF ~HasIdiom(body) /\ OptionEnabled
    THEN InsideScaffold(BasicConversion(body)) ELSE BasicConversion(body)

\* the block under the line head of ls is made of the lines block, each
\* indented by four spaces, and ends after them
BlockIs(ls, head, block) ==
    \E k \in 1..Len(ls) :
        /\ ls[k] = head
        /\ k + Len(block) <= Len(ls)
        /\ \A j \in 1..Len(block) : ls[k + j] = "    " \o block[j]
        /\ k + Len(block) < Len(ls) => LeadingSpaces(ls[k + Len(block) + 1]) = 0

\* the head of the block of an element: the guard for the main script, the
\* def line of a subroutine without parameters
HeadOf(el) ==
    IF el.type = "main_script" THEN "if __name__ == '__main__':"
    ELSE "def " \o el.name \o "():"

\* C16: the rewritten body of the main script and of each subroutine is
\* inside the scaffold exactly when the body holds no error idiom and the
\* option add_exception_handling is true or not given; the scaffold is try:,
\* the rewritten lines indented by four more spaces, and the clauses for
\* ValueError, FileNotFoundError and Exception, each printing and raising
\* again; otherwise the rewritten lines stand as they are.
ScaffoldWhenNoIdiom ==
    pc = "converted" =>
        \A i \in 1..Len(elements) :
            (/\ elements[i].type \in {"main_script", "subroutine"}
             /\ ClaimedBody(elements[i].body) # <<>>)
            => BlockIs(Split(python_code, "\n"), HeadOf(elements[i]),
                       ClaimedBody(elements[i].body))

\* a main script that signals an error was left bare and a subroutine that
\* does not was put inside the scaffold, the option not being given
BareAndScaffolded ==
    /\ pc = "converted"
    /\ config = EmptyConfig
    /\ \E i \in 1..Len(elements) :
          elements[i].type = "main_script" /\ Contains(elements[i].body, "die")
    /\ Contains(python_code, "def f():\n    try:\n        y = 1\n    except ValueError as e:")
    /\ Contains(python_code, "if __name__ == '__main__':\n    raise Exception(f\"m\")")

---------------------------------------------------------------------------
(* convert_code with a post-processing hook that is absent, raises or      *)
(* returns.                                                                *)

\* what the hook does
HookBehaviours == {"absent", "raises", "returns"}

InitHook ==
    /\ pc = "convert_preprocess"
    /\ perl_code \in ConvertTexts
    /\ config = EmptyConfig
    /\ post_process \in HookBehaviours
    /\ hook_args = <<>>
    /\ run = NoRun
    /\ NothingOutside
    /\ elements = <<>>
    /\ python_code = ""
    /\ perl_body = ""
    /\ todo = <<>>
    /\ lines = <<>>
    /\ current_indent = 0
    /\ indent_stack = <<>>
    /\ last = NoStep

SpecHook == InitHook /\ [][NextConvert]_vars

\* the hook was called at most once, and then at the end of the conversion
\* with the assembled text under its header; the conversion did not raise
HookCalledOnceAtTheEnd ==
    /\ Len(hook_args) <= 1
    /\ pc # "raised"
    /\ hook_args # <<>> =>
          /\ pc = "converted"
          /\ post_process # "absent"
          /\ StartsWithAt(hook_args[1], 0, Header)
          /\ StartsWithAt(hook_args[1], Len(Header), "#!/usr/bin/env python3\n")

\* with a hook that is absent or raises, the last stage returns the assembled
\* text under its header
FallsBackOnFailure ==
    (pc = "convert_postprocess" /\ post_process # "returns")
    => (pc' = "converted" /\ python_code' = Header \o python_code)

\* C17: the hook is called at most once in a conversion, after the text was
\* assembled and put under its header; when the hook is absent or raises,
\* convert_code does not raise and returns the header and the assembled text
\* unchanged.
HookFailureFallsBack == [](HookCalledOnceAtTheEnd) /\ [][FallsBackOnFailure]_vars

\* a hook that raised was called and the conversion ended with the text under
\* its header
HookRaisedAndCaught ==
    /\ pc = "converted"
    /\ post_process = "raises"
    /\ Len(hook_args) = 1
    /\ python_code = hook_args[1]

---------------------------------------------------------------------------
(* convert_code on the texts of the string conversion example.             *)

\* how many pieces a text of the example is built from
MaxExamplePieces == 2

\* the pieces of examples/programmatic_usage.py, example_4_string_conversion
ExamplePieces ==
    {"use strict;\n", "# Call the subroutine\n",
     "sub greet { my ($name) = @_; print \"Hello, $name!\\n\"; }\n",
     "sub greet {\n    my ($name) = @_;\n    print \"Hello, $name!\\n\";\n}\n",
     "greet(\"World\");\n"}

RECURSIVE ExampleTextsOfLen(_)
ExampleTextsOfLen(n) ==
    IF n = 0 THEN {""} ELSE {t \o g : t \in ExampleTextsOfLen(n - 1), g \in ExamplePieces}

ExampleTexts == UNION {ExampleTextsOfLen(n) : n \in 0..MaxExamplePieces}

InitExample ==
    /\ pc = "convert_preprocess"
    /\ perl_code \in ExampleTexts
    /\ config \in ConvertConfigs
    /\ post_process = "absent"
    /\ hook_args = <<>>
    /\ run = NoRun
    /\ NothingOutside
    /\ elements = <<>>
    /\ python_code = ""
    /\ perl_body = ""
    /\ todo = <<>>
    /\ lines = <<>>
    /\ current_indent = 0
    /\ indent_stack = <<>>
    /\ last = NoStep

SpecExample == InitExample /\ [][NextConvert]_vars

\* the text held the subroutine greet, which takes $name from @_ and prints
\* it inside a quoted text, and the call of greet after it
GreetThenCall ==
    \E i \in 1..Len(elements) :
       /\ elements[i].type = "subroutine"
       /\ elements[i].name = "greet"
       /\ Contains(elements[i].body, "my ($name) = @_;")
       /\ Contains(elements[i].body, "print \"Hello, $name!\\n\";")
       /\ Find(perl_code, "greet(\"World\");", elements[i].end) >= 0
       /\ \E j \in 1..Len(elements) :
             elements[j].type = "main_script" /\ elements[j].body = "greet(\"World\");"

\* among the lines ls: def greet(name):, a print of an f-string that holds
\* {name}, and greet("World") under the entry guard
GreetConverted(ls) ==
    /\ HasLine(ls, "def greet(name):")
    /\ \E k \in 1..Len(ls) :
          StartsWithAt(Strip(ls[k]), 0, "print(f\"") /\ Contains(ls[k], "{name}")
    /\ \E g \in 1..Len(ls) :
          /\ ls[g] = "if __name__ == '__main__':"
          /\ \E k \in (g + 1)..Len(ls) : Strip(ls[k]) = "greet(\"World\")"

\* C18: the subroutine greet with my ($name) = @_; and print "Hello, $name!\n";
\* followed by the call greet("World"); is converted to def greet(name):, a
\* print whose f-string holds the placeholder {name}, and the call
\* greet("World") under the entry guard.
GreetExampleConverted ==
    (pc = "converted" /\ GreetThenCall) => GreetConverted(Split(python_code, "\n"))

---------------------------------------------------------------------------
(* The line rewriter on bodies with loops over a range of numbers.         *)

\* how many lines a body with range loops has at most
MaxLoopLines == 2

\* the literals a range ends with, each with the literal of the next number
RangeEnds ==
    ("0" :> "1") @@ ("2" :> "3") @@ ("5" :> "6") @@ ("9" :> "10") @@ ("99" :> "100")

\* the literals a range starts with
RangeStarts == {"0", "1", "2", "10"}

LoopKeywords == {"for", "foreach"}

\* names of loop variables; the last one ends with the keyword of another rule
LoopVariables == {"v", "i", "notif"}

\* the loop header of the variable v over the range a..b
RangeHeader(kw, v, a, b) == kw \o " my $" \o v \o " (" \o a \o ".." \o b \o ") {"

\* the loop header of the variable v over the hash h, written as iterable
\* says: "%" for %h, "keys %" for keys %h
HashHeader(kw, v, iterable, h) == kw \o " my $" \o v \o " (" \o iterable \o h \o ") {"

\* the lines a body is built from: range loops, loops over a hash, a block
\* to put a loop in, a statement, and the end of a block
LoopLines ==
    {RangeHeader("for", "v", "1", "5"), RangeHeader("foreach", "i", "1", "5"),
     RangeHeader("for", "i", "0", "9"), RangeHeader("foreach", "v", "10", "99"),
     RangeHeader("for", "v", "2", "2"), RangeHeader("foreach", "v", "1", "0"),
     "    " \o RangeHeader("for", "i", "10", "99"),
     RangeHeader("for", "notif", "0", "9"), HashHeader("for", "k", "%", "h"),
     HashHeader("foreach", "key", "keys %", "person"), "if ($x) {", "  $y = 1;", "}"}

RECURSIVE LoopBodiesOfLen(_)
LoopBodiesOfLen(n) ==
    IF n = 1 THEN LoopLines
    ELSE {b \o "\n" \o l : b \in LoopBodiesOfLen(n - 1), l \in LoopLines}

LoopBodies == UNION {LoopBodiesOfLen(n) : n \in 1..MaxLoopLines}

InitLoops ==
    /\ pc = "rewrite_begin"
    /\ perl_body \in LoopBodies
    /\ perl_code = ""
    /\ elements = <<>>
    /\ config = EmptyConfig
    /\ python_code = ""
    /\ todo = <<>>
    /\ lines = <<>>
    /\ current_indent = 0
    /\ indent_stack = <<>>
    /\ last = NoStep
    /\ post_process = "absent"
    /\ hook_args = <<>>
    /\ run = NoRun
    /\ NothingOutside

SpecLoops == InitLoops /\ [][NextRewrite]_vars

\* the line the claim gives for the header of v over a..b, at the indent ci
RangeLoopLine(ci, v, a, b) ==
    Spaces(ci) \o "for " \o v \o " in range(" \o a \o ", " \o RangeEnds[b] \o "):"

\* the last step emitted exactly the line l, pushed the indent it found and
\* went one unit deeper
EmittedAndOpened(l) ==
    /\ last.out = <<l>>
    /\ last.pushed = 1
    /\ indent_stack[Len(indent_stack)] = last.indent
    /\ current_indent = last.indent + IndentUnit

\* C19: a loop header for my $v (a..b) { or foreach my $v (a..b) { is emitted
\* as for v in range(a, b+1): at the current indent, and it pushes the
\* current indent and increases it by one unit.
RangeLoopConverted ==
    \A kw \in LoopKeywords, v \in LoopVariables, a \in RangeStarts, b \in DOMAIN RangeEnds :
        (last.rule # "none" /\ Strip(last.line) = RangeHeader(kw, v, a, b))
            => EmittedAndOpened(RangeLoopLine(last.indent, v, a, b))

---------------------------------------------------------------------------
(* The statements emitted for my (...) = @ARGV;, run as Python runs them.  *)

\* how many command-line arguments a run is given at most
MaxArgs == 3

\* how many lines a body with declarations from @ARGV has at most
MaxArgvLines == 2

\* the values of a run: None, and the text of an argument
PyNone == [type |-> "NoneType", value |-> ""]

PyStr(s) == [type |-> "str", value |-> s]

\* the i-th command-line argument: "10", "20", ...
Arg(i) == FormatInt(10 * i)

\* sys.argv of a run with n arguments
ArgvOf(n) == <<"script.py">> \o [i \in 1..n |-> Arg(i)]

\* the parts of  targets = sys.argv[1:] if len(sys.argv) > n else (values)
GuardText == " = sys.argv[1:] if len(sys.argv) > "

ElseText == " else ("

IsArgvUnpack(stmt) ==
    /\ Find(stmt, GuardText, 0) > 0
    /\ Find(stmt, ElseText, 0) > Find(stmt, GuardText, 0)
    /\ At(stmt, Len(stmt) - 1) = ")"

\* the items of a list written with commas
Items(s) == LET parts == Split(s, ",") IN [i \in 1..Len(parts) |-> Strip(parts[i])]

UnpackTargets(stmt) == Items(Slice(stmt, 0, Find(stmt, GuardText, 0)))

UnpackThreshold(stmt) ==
    ParseInt(Slice(stmt, Find(stmt, GuardText, 0) + Len(GuardText), Find(stmt, ElseText, 0)))

UnpackDefault(stmt) ==
    Items(Slice(stmt, Find(stmt, ElseText, 0) + Len(ElseText), Len(stmt) - 1))

\* the value of the conditional expression: the arguments after the script
\* name when there are more than n entries in sys.argv, the tuple otherwise
UnpackValue(stmt, av) ==
    IF Len(av) > UnpackThreshold(stmt)
    THEN [i \in 1..(Len(av) - 1) |-> PyStr(av[i + 1])]
    ELSE [i \in 1..Len(UnpackDefault(stmt)) |-> PyNone]

\* the assignment of a sequence of values to two or more targets: Python
\* raises ValueError unless there is one value for each target
Unpack(st, targets, values) ==
    IF Len(targets) # Len(values) THEN [st EXCEPT !.raised = "ValueError"]
    ELSE [st EXCEPT !.names =
             [n \in DOMAIN st.names \cup {targets[i] : i \in 1..Len(targets)} |->
                 IF \E i \in 1..Len(targets) : targets[i] = n
                 THEN values[CHOOSE i \in 1..Len(targets) :
                                targets[i] = n /\ \A j \in (i + 1)..Len(targets) : targets[j] # n]
                 ELSE st.names[n]]]

\* one statement of the emitted lines
Execute(st, stmt) ==
    IF st.raised # "" THEN st
    ELSE IF Strip(stmt) = "" \/ StartsWithAt(Strip(stmt), 0, "#") \/ stmt = "import sys" THEN st
    ELSE IF IsArgvUnpack(stmt) THEN Unpack(st, UnpackTargets(stmt), UnpackValue(stmt, st.argv))
    ELSE [st EXCEPT !.raised = "not modelled"]

RECURSIVE ExecuteFrom(_, _, _)
ExecuteFrom(st, ls, k) ==
    IF k > Len(ls) THEN st ELSE ExecuteFrom(Execute(st, ls[k]), ls, k + 1)

\* the emitted lines ls run with sys.argv = av
RunOf(ls, av) ==
    ExecuteFrom([argv |-> av, raised |-> "", names |-> [k \in {} |-> TRUE]], ls, 1)

\* the lines a body is built from
ArgvLines ==
    {"my ($a, $b) = @ARGV;", "  my ($a, $b) = @ARGV;", "my ($x, $y) = @ARGV;",
     "my ($b, $a) = @ARGV;", "# c"}

RECURSIVE ArgvBodiesOfLen(_)
ArgvBodiesOfLen(n) ==
    IF n = 1 THEN ArgvLines
    ELSE {b \o "\n" \o l : b \in ArgvBodiesOfLen(n - 1), l \in ArgvLines}

ArgvBodies == UNION {ArgvBodiesOfLen(n) : n \in 1..MaxArgvLines}

InitArgv ==
    /\ pc = "rewrite_begin"
    /\ perl_body \in ArgvBodies
    /\ perl_code = ""
    /\ elements = <<>>
    /\ config = EmptyConfig
    /\ python_code = ""
    /\ todo = <<>>
    /\ lines = <<>>
    /\ current_indent = 0
    /\ indent_stack = <<>>
    /\ last = NoStep
    /\ post_process = "absent"
    /\ hook_args = <<>>
    /\ run = NoRun
    /\ NothingOutside

\* the emitted statements are run with up to MaxArgs command-line arguments
RunGenerated ==
    /\ pc = "rewrite_done"
    /\ \E n \in 0..MaxArgs : run' = RunOf(lines, ArgvOf(n))
    /\ pc' = "ran"
    /\ UNCHANGED <<perl_code, config, elements, python_code, perl_body, todo, lines,
                   current_indent, indent_stack, last, post_process, hook_args, outside>>

NextArgv ==
    \/ RewriteBegin
    \/ RewriteStep
    \/ RewriteReturn
    \/ RunGenerated

SpecArgv == InitArgv /\ [][NextArgv]_vars

\* the body ends with my ($a, $b) = @ARGV;
DeclaresLast == BodyLinesOf(perl_body)[Len(BodyLinesOf(perl_body))] = "my ($a, $b) = @ARGV;"

\* the run bound a and b to None
BothNone ==
    /\ {"a", "b"} \subseteq DOMAIN run.names
    /\ run.names["a"] = PyNone
    /\ run.names["b"] = PyNone

\* the run bound a and b to the first two arguments
BothPositional ==
    /\ {"a", "b"} \subseteq DOMAIN run.names
    /\ run.names["a"] = PyStr(run.argv[2])
    /\ run.names["b"] = PyStr(run.argv[3])

\* C20: my ($a, $b) = @ARGV; is emitted as a guarded positional unpack which,
\* when run, does not fail, binds a and b to None with fewer than two
\* command-line arguments, and binds them to the two positional values with
\* two arguments or more.
ArgvUnpackBinds ==
    (pc = "ran" /\ DeclaresLast) =>
        /\ lines[Len(lines)] = "a, b = sys.argv[1:] if len(sys.argv) > 2 else (None, None)"
        /\ run.raised = ""
        /\ IF Len(run.argv) - 1 < 2 THEN BothNone ELSE BothPositional

---------------------------------------------------------------------------
(* The line rewriter on bodies with substitutions and regex matches.       *)

\* how many lines a body with regex operations has at most
MaxRegexLines == 2

\* the substitution statement of the variable v
Substitution(v, p, r, flags) == "$" \o v \o " =~ s/" \o p \o "/" \o r \o "/" \o flags \o ";"

\* the if opener on a match of the variable v
MatchOpener(v, p, flags) == "if ($" \o v \o " =~ m/" \o p \o "/" \o flags \o ") {"

RegexVariables == {"text", "v"}

RegexPatterns == {"Hello", "a+"}

RegexReplacements == {"Hi", ""}

SubstitutionFlags == {"", "g", "i", "gi"}

MatchFlags == {"", "i"}

\* the lines a body is built from: the statements of the regex test, a block
\* around them, and a statement
RegexLines ==
    {Substitution("text", "Hello", "Hi", ""), Substitution("text", "Hello", "Hi", "g"),
     Substitution("v", "a+", "", "gi"), Substitution("v", "a+", "Hi", "i"),
     MatchOpener("text", "Hello", ""), MatchOpener("text", "Hello", "i"),
     MatchOpener("v", "a+", "i"), "while ($x) {", "  $y = 1;", "}"}

RECURSIVE RegexBodiesOfLen(_)
RegexBodiesOfLen(n) ==
    IF n = 1 THEN RegexLines
    ELSE {b \o "\n" \o l : b \in RegexBodiesOfLen(n - 1), l \in RegexLines}

RegexBodies == UNION {RegexBodiesOfLen(n) : n \in 1..MaxRegexLines}

InitRegex ==
    /\ pc = "rewrite_begin"
    /\ perl_body \in RegexBodies
    /\ perl_code = ""
    /\ elements = <<>>
    /\ config = EmptyConfig
    /\ python_code = ""
    /\ todo = <<>>
    /\ lines = <<>>
    /\ current_indent = 0
    /\ indent_stack = <<>>
    /\ last = NoStep
    /\ post_process = "absent"
    /\ hook_args = <<>>
    /\ run = NoRun
    /\ NothingOutside

SpecRegex == InitRegex /\ [][NextRewrite]_vars

\* the line l is the call v = re.sub(r'p', r'r', v, ...), without a count
\* argument when flags has g and with count=1 when it has not
IsSubCall(l, v, p, r, flags) ==
    /\ StartsWithAt(Strip(l), 0, v \o " = re.sub(r'" \o p \o "', r'" \o r \o "', " \o v)
    /\ At(l, Len(l) - 1) = ")"
    /\ IF Contains(flags, "g") THEN ~Contains(l, "count=") ELSE Contains(l, "count=1")

\* C21: a statement $v =~ s/P/R/FLAGS; is emitted as a call
\* v = re.sub(r'P', r'R', v, ...), which carries no count argument when FLAGS
\* contains g and count=1 when it does not.
SubstitutionConverted ==
    \A v \in RegexVariables, p \in RegexPatterns, r \in RegexReplacements,
       flags \in SubstitutionFlags :
        (last.rule # "none" /\ Strip(last.line) = Substitution(v, p, r, flags))
            => Len(last.out) = 1 /\ IsSubCall(last.out[1], v, p, r, flags)

\* C22: a regex match used as the condition of an if block,
\* if ($v =~ m/P/) { or if ($v =~ m/P/i) {, is converted to a line that
\* contains a call re.search(r'P', ...), with re.IGNORECASE when the flag i
\* is present.
MatchConditionConverted ==
    \A v \in RegexVariables, p \in RegexPatterns, flags \in MatchFlags :
        (last.rule # "none" /\ Strip(last.line) = MatchOpener(v, p, flags))
            => \E k \in 1..Len(last.out) :
                  /\ Contains(last.out[k], "re.search(r'" \o p \o "'")
                  /\ Contains(flags, "i") => Contains(last.out[k], "re.IGNORECASE")


HashNames == {"h", "person"}

HashIterables == {"%", "keys %"}

\* C23: a foreach/for loop whose iterable is %h or keys %h is emitted as the
\* keys iteration for k in h.keys():, and opens a block.
HashLoopConverted ==
    \A kw \in LoopKeywords, v \in {"k", "key"}, iterable \in HashIterables, h \in HashNames :
        (last.rule # "none" /\ Strip(last.line) = HashHeader(kw, v, iterable, h))
            => EmittedAndOpened(Spaces(last.indent) \o "for " \o v \o " in " \o h \o ".keys():")

---------------------------------------------------------------------------
(* The builtins substitution pass, applied to a line and to its result.    *)

\* how many pieces a line given to the pass is built from
MaxLinePieces == 2

\* how many times the pass is applied in a row
MaxPasses == 2

\* the pieces of a line: some hold keys of the map, some only their letters
LinePieces ==
    {"  ", "y = 1", "x + y", "s ub", "Keys", "f(x)", "print", "sub", "sort(x)"}

RECURSIVE LinesOfLen(_)
LinesOfLen(n) ==
    IF n = 0 THEN {""} ELSE {l \o p : l \in LinesOfLen(n - 1), p \in LinePieces}

PassLines == UNION {LinesOfLen(n) : n \in 0..MaxLinePieces}

InitBuiltins ==
    /\ pc = "builtins_pass"
    /\ todo \in {<<l>> : l \in PassLines}
    /\ lines = <<>>
    /\ perl_body = ""
    /\ perl_code = ""
    /\ elements = <<>>
    /\ config = EmptyConfig
    /\ python_code = ""
    /\ current_indent = 0
    /\ indent_stack = <<>>
    /\ last = NoStep
    /\ post_process = "absent"
    /\ hook_args = <<>>
    /\ run = NoRun
    /\ NothingOutside

\* lines 939-945 on the line, then on what the pass made of it
BuiltinsPass ==
    /\ pc = "builtins_pass"
    /\ Len(lines) < MaxPasses
    /\ lines' = Append(lines, ApplyBuiltins(IF lines = <<>> THEN todo[1] ELSE lines[Len(lines)]))
    /\ UNCHANGED <<pc, perl_code, config, elements, python_code, perl_body, todo,
                   current_indent, indent_stack, last, post_process, hook_args, run, outside>>

NextBuiltins == BuiltinsPass

SpecBuiltins == InitBuiltins /\ [][NextBuiltins]_vars

\* no key of the builtins map is a substring of line
NoKeyIn(line) ==
    \A j \in 1..Len(PerlBuiltinsMap) : ~Contains(line, PerlBuiltinsMap[j][1])

\* C24: the builtins pass returns a line unchanged whenever the line contains
\* none of the keys of the builtins map as a substring, and applying the pass
\* again to that result changes nothing.
PassThroughUnchanged ==
    (pc = "builtins_pass" /\ NoKeyIn(todo[1])) =>
        \A k \in 1..Len(lines) : lines[k] = todo[1]

\* C24 witness: an indented line that holds the letters of keys but no key
\* went through the pass twice
KeyFreeLinePassedTwice ==
    /\ pc = "builtins_pass"
    /\ todo = <<"  s ub">>
    /\ NoKeyIn(todo[1])
    /\ lines = <<"  s ub", "  s ub">>

---------------------------------------------------------------------------
(* convert_file, on a small file system.                                   *)

\* how many Perl files the input directory holds at most
MaxFiles == 2

\* the working directory of the process
Cwd == "/w"

\* the offset of the last "/" of path, -1 when there is none
LastSlash(path) == Max({-1} \cup {k \in 0..(Len(path) - 1) : At(path, k) = "/"})

\* os.path.dirname(path)
Dirname(path) ==
    IF LastSlash(path) < 0 THEN ""
    ELSE IF LastSlash(path) = 0 THEN "/"
    ELSE Slice(path, 0, LastSlash(path))

\* os.path.abspath(path), for a path without . and .. components
Abspath(path) ==
    IF StartsWithAt(path, 0, "/") THEN path
    ELSE IF path = "" THEN Cwd
    ELSE Cwd \o "/" \o path

\* os.path.join(a, b) for a relative b
PathJoin(a, b) == a \o "/" \o b

\* dir and the directories above it, the root left out
WithParents(dir) ==
    {Slice(dir, 0, k) : k \in {k \in 1..Len(dir) : k = Len(dir) \/ At(dir, k) = "/"}}

\* a test that finds every path
PathExistsAlways(f, path) == TRUE

\* os.path.exists(path)
PathExists(f, path) == path \in f.dirs \/ path \in DOMAIN f.files

\* os.path.isdir(path), os.path.isfile(path)
IsDir(f, path) == path \in f.dirs

IsFile(f, path) == path \in DOMAIN f.files

\* the outcome of open(path, 'r', encoding='utf-8') and f.read()
ReadText(f, path) ==
    IF IsDir(f, path) THEN [raised |-> "IsADirectoryError", text |-> ""]
    ELSE IF ~IsFile(f, path) THEN [raised |-> "FileNotFoundError", text |-> ""]
    ELSE IF ~f.files[path].decodes THEN [raised |-> "UnicodeDecodeError", text |-> ""]
    ELSE [raised |-> "", text |-> f.files[path].text]

\* os.makedirs(dir, exist_ok=True)
Makedirs(f, dir) ==
    IF dir \in DOMAIN f.files THEN [raised |-> "FileExistsError", fs |-> f]
    ELSE IF WithParents(dir) \cap DOMAIN f.files # {}
    THEN [raised |-> "NotADirectoryError", fs |-> f]
    ELSE [raised |-> "", fs |-> [f EXCEPT !.dirs = @ \cup WithParents(dir)]]

\* open(path, 'w', encoding='utf-8') and f.write(text), the directory of path
\* being there
WriteText(f, path, text) ==
    IF IsDir(f, path) THEN [raised |-> "IsADirectoryError", fs |-> f]
    ELSE [raised |-> "",
          fs |-> [f EXCEPT !.files =
                     [p \in DOMAIN f.files \cup {path} |->
                         IF p = path THEN [text |-> text, decodes |-> TRUE]
                         ELSE f.files[p]]]]

\* lines 203-205: the directory of the output file is made, then the file is
\* written
SaveOutput(f, output_file_path, text) ==
    LET made == Makedirs(f, Dirname(Abspath(output_file_path))) IN
    IF made.raised # "" THEN made ELSE WriteText(made.fs, Abspath(output_file_path), text)

\* lines 193-194
ConvertFileCheck ==
    /\ pc = "convert_file"
    /\ IF PathExists(fs, file_args.perl_file_path)
       THEN pc' = "convert_file_read" /\ UNCHANGED exception
       ELSE pc' = "raised" /\ exception' = "FileNotFoundError"
    /\ UNCHANGED <<perl_code, config, elements, python_code, perl_body, todo, lines,
                   current_indent, indent_stack, last, post_process, hook_args, run,
                   fs, batch, environ, calls, perl_builtins_map, generation, file_args>>

\* lines 198-201: the file is read and convert_code is called on its text
ConvertFileRead ==
    /\ pc = "convert_file_read"
    /\ LET got == ReadText(fs, file_args.perl_file_path) IN
          /\ perl_code' = (IF got.raised = "" THEN got.text ELSE perl_code)
          /\ exception' = got.raised
          /\ pc' = (IF got.raised = "" THEN "convert_preprocess" ELSE "raised")
    /\ UNCHANGED <<config, elements, python_code, perl_body, todo, lines,
                   current_indent, indent_stack, last, post_process, hook_args, run,
                   fs, batch, environ, calls, perl_builtins_map, generation, file_args>>

\* lines 203-209: the text is saved when an output path is given
ConvertFileWrite ==
    /\ pc = "converted"
    /\ LET saved == IF file_args.output_file_path = "" THEN [raised |-> "", fs |-> fs]
                    ELSE SaveOutput(fs, file_args.output_file_path, python_code) IN
          /\ fs' = saved.fs
          /\ exception' = saved.raised
          /\ pc' = (IF saved.raised = "" THEN "convert_file_return" ELSE "raised")
    /\ UNCHANGED <<perl_code, config, elements, python_code, perl_body, todo, lines,
                   current_indent, indent_stack, last, post_process, hook_args, run,
                   batch, environ, calls, perl_builtins_map, generation, file_args>>

\* the names of the Perl files
FileNames == <<"a.pl", "b.pl", "c.pl", "d.pl">>

\* what a file holds: a text, or bytes that are not UTF-8
FileContents == {[text |-> "x;\n", decodes |-> TRUE], [text |-> "", decodes |-> FALSE]}

\* the directory /w/in with the files of names, held by holds
DiskOf(names, holds) ==
    [dirs |-> {"/w", "/w/in"},
     files |-> [p \in {PathJoin("/w/in", FileNames[i]) : i \in names} |->
                   holds[CHOOSE i \in names : PathJoin("/w/in", FileNames[i]) = p]]]

Disks ==
    UNION {{DiskOf(names, holds) : holds \in [names -> FileContents]} :
           names \in SUBSET (1..MaxFiles)}

\* the input paths: a file that may be there, one that is not, a directory
InputPaths == {PathJoin("/w/in", FileNames[i]) : i \in 1..(MaxFiles + 1)} \cup {"/w/in"}

\* the output paths: none, one in a directory to be made, a relative one, and
\* one under an input file
OutputPaths == {"", "/w/out/a.py", "a.py", "/w/in/a.pl/a.py"}

InitFile ==
    /\ pc = "convert_file"
    /\ fs \in Disks
    /\ file_args \in [perl_file_path : InputPaths, output_file_path : OutputPaths]
    /\ exception = ""
    /\ NotGenerating
    /\ batch = NoBatch
    /\ environ = NoEnviron
    /\ calls = <<>>
    /\ perl_builtins_map = PerlBuiltinsMap
    /\ perl_code = ""
    /\ config = EmptyConfig
    /\ elements = <<>>
    /\ python_code = ""
    /\ perl_body = ""
    /\ todo = <<>>
    /\ lines = <<>>
    /\ current_indent = 0
    /\ indent_stack = <<>>
    /\ last = NoStep
    /\ post_process = "absent"
    /\ hook_args = <<>>
    /\ run = NoRun

NextFile ==
    \/ ConvertFileCheck
    \/ ConvertFileRead
    \/ ConvertPreprocess
    \/ ConvertParse
    \/ ConvertGenerate
    \/ ConvertPostprocess
    \/ ConvertFileWrite

SpecFile == InitFile /\ [][NextFile]_vars

\* the input path of the call names nothing on disk
InputMissing == file_args.perl_file_path \notin fs.dirs \cup DOMAIN fs.files

\* once the call has started on a missing input it has raised
\* FileNotFoundError, with nothing read and nothing converted
MissingInputRaised ==
    (InputMissing /\ pc # "convert_file") =>
        /\ pc = "raised"
        /\ exception = "FileNotFoundError"
        /\ perl_code = ""
        /\ elements = <<>>
        /\ python_code = ""

\* a step of the call on a missing input leaves the file system as it is
MissingInputWritesNothing == InputMissing => fs' = fs

\* C25: convert_file on an input path that does not exist raises
\* FileNotFoundError before the input is read or any conversion step runs,
\* and neither creates the output directory nor writes an output file.
MissingInputRaisesFirst == [](MissingInputRaised) /\ [][MissingInputWritesNothing]_vars

\* C25 witness: the call on /w/in/c.pl, which is not there, with an output
\* path in a directory to be made, has raised and /w/out is not there
MissingInputWithOutputPath ==
    /\ pc = "raised"
    /\ exception = "FileNotFoundError"
    /\ file_args = [perl_file_path |-> "/w/in/c.pl", output_file_path |-> "/w/out/a.py"]
    /\ DOMAIN fs.files # {}
    /\ "/w/out" \notin fs.dirs

---------------------------------------------------------------------------
(* cli.process_directory and cli.process_file, on a small file system.     *)

\* the last component of path
Basename(path) == SliceFrom(path, LastSlash(path) + 1)

\* os.listdir(dir)
Listdir(f, dir) ==
    {Basename(p) : p \in {q \in f.dirs \cup DOMAIN f.files : Dirname(q) = dir /\ q # dir}}

\* the offset of the last "." of name, -1 when there is none
LastDot(name) == Max({-1} \cup {k \in 0..(Len(name) - 1) : At(name, k) = "."})

\* os.path.splitext(name)[0] for a name without "/"
SplitextRoot(name) == IF LastDot(name) <= 0 THEN name ELSE Slice(name, 0, LastDot(name))

\* name.endswith(suffix)
EndsWith(name, suffix) ==
    Len(name) >= Len(suffix) /\ SliceFrom(name, Len(name) - Len(suffix)) = suffix

\* datetime.now().strftime('%Y-%m-%d %H:%M:%S') at the calls of process_file
Dates == {"2024-01-01 10:00:00", "2024-01-01 10:00:01"}

\* a frame of process_directory before its first statement
FrameOf(perl_dir, output_dir) ==
    [perl_dir |-> perl_dir, output_dir |-> IF output_dir = "" THEN perl_dir ELSE output_dir,
     items |-> {}, results |-> [success |-> 0, failure |-> 0], stage |-> "enter"]

\* the frame on top of the stack
Top == batch.stack[Len(batch.stack)]

\* the stack with its top frame replaced by fr
WithTop(fr) == [batch.stack EXCEPT ![Len(batch.stack)] = fr]

\* a process_file without its except clause
ProcessFileUncaught(ended, exc) ==
    [success |-> ended = "convert_file_return", propagates |-> ended = "raised"]

\* cli.py lines 124-143, after convert_file has ended at ended with the exception
\* exc: every exception of the class Exception is caught and gives False
ProcessFileResult(ended, exc) ==
    [success |-> ended = "convert_file_return", propagates |-> FALSE]

\* cli.py lines 162-171: the output directory is made unless dry_run, and the
\* directory is listed
ProcessDirectoryEnter ==
    /\ pc = "process_directory"
    /\ Top.stage = "enter"
    /\ LET made == IF ~batch.dry_run /\ ~PathExists(fs, Top.output_dir)
                   THEN Makedirs(fs, Top.output_dir)
                   ELSE [raised |-> "", fs |-> fs] IN
          /\ fs' = made.fs
          /\ exception' = made.raised
          /\ pc' = (IF made.raised = "" THEN pc ELSE "raised")
          /\ batch' = [batch EXCEPT !.stack =
                          WithTop([Top EXCEPT !.items = Listdir(fs', Top.perl_dir),
                                              !.stage = "loop"])]
    /\ UNCHANGED <<perl_code, config, elements, python_code, perl_body, todo, lines,
                   current_indent, indent_stack, last, post_process, hook_args, run,
                   environ, calls, perl_builtins_map, generation, file_args>>

\* cli.py lines 175-179: the next item is a directory and recursive is set
ProcessSubdirectory ==
    /\ pc = "process_directory"
    /\ Top.stage = "loop"
    /\ \E item \in Top.items :
          /\ IsDir(fs, PathJoin(Top.perl_dir, item)) /\ batch.recursive
          /\ batch' = [batch EXCEPT !.stack =
                          Append(WithTop([Top EXCEPT !.items = @ \ {item}]),
                                 FrameOf(PathJoin(Top.perl_dir, item),
                                         PathJoin(Top.output_dir, item)))]
    /\ UNCHANGED <<pc, perl_code, config, elements, python_code, perl_body, todo, lines,
                   current_indent, indent_stack, last, post_process, hook_args, run,
                   fs, environ, calls, perl_builtins_map, generation, file_args, exception>>

\* the item is a Perl file for the loop: cli.py lines 175 and 182
IsPerlFile(f, dir, item, recursive) ==
    /\ ~(IsDir(f, PathJoin(dir, item)) /\ recursive)
    /\ IsFile(f, PathJoin(dir, item))
    /\ EndsWith(item, ".pl")

\* cli.py lines 171-188: the next item is neither a directory to go into nor a Perl
\* file
ProcessOtherItem ==
    /\ pc = "process_directory"
    /\ Top.stage = "loop"
    /\ \E item \in Top.items :
          /\ ~(IsDir(fs, PathJoin(Top.perl_dir, item)) /\ batch.recursive)
          /\ ~IsPerlFile(fs, Top.perl_dir, item, batch.recursive)
          /\ batch' = [batch EXCEPT !.stack = WithTop([Top EXCEPT !.items = @ \ {item}])]
    /\ UNCHANGED <<pc, perl_code, config, elements, python_code, perl_body, todo, lines,
                   current_indent, indent_stack, last, post_process, hook_args, run,
                   fs, environ, calls, perl_builtins_map, generation, file_args, exception>>

\* the record of the calls of process_file with one more call on path
Attempt(attempted, path) ==
    [p \in DOMAIN attempted \cup {path} |->
        IF p = path THEN (IF p \in DOMAIN attempted THEN attempted[p] + 1 ELSE 1)
        ELSE attempted[p]]

\* cli.py lines 182-185 and 124-136: process_file is called on a Perl file; with
\* dry_run it returns True at once, otherwise it sets CONVERSION_DATE, makes
\* a converter and calls convert_file
ProcessFileCall ==
    /\ pc = "process_directory"
    /\ Top.stage = "loop"
    /\ \E item \in Top.items, date \in Dates :
          /\ IsPerlFile(fs, Top.perl_dir, item, batch.recursive)
          /\ IF batch.dry_run
             THEN /\ batch' = [batch EXCEPT
                                 !.attempted = Attempt(@, PathJoin(Top.perl_dir, item)),
                                 !.stack = WithTop([Top EXCEPT !.items = @ \ {item},
                                                               !.results.success = @ + 1])]
                  /\ UNCHANGED <<pc, environ, file_args>>
             ELSE /\ batch' = [batch EXCEPT
                                 !.attempted = Attempt(@, PathJoin(Top.perl_dir, item)),
                                 !.stack = WithTop([Top EXCEPT !.items = @ \ {item},
                                                               !.stage = "file"])]
                  /\ environ' = ("CONVERSION_DATE" :> date)
                  /\ file_args' = [perl_file_path |-> PathJoin(Top.perl_dir, item),
                                   output_file_path |->
                                       PathJoin(Top.output_dir, SplitextRoot(item) \o ".py")]
                  /\ pc' = "convert_file"
    /\ UNCHANGED <<perl_code, config, elements, python_code, perl_body, todo, lines,
                   current_indent, indent_stack, last, post_process, hook_args, run,
                   fs, calls, perl_builtins_map, generation, exception>>

\* cli.py lines 139-143 and 185-188: convert_file has returned or raised; an
\* exception that is not caught ends every frame
ProcessFileReturn ==
    /\ pc \in {"convert_file_return", "raised"}
    /\ batch.stack # <<>>
    /\ Top.stage = "file"
    /\ LET r == ProcessFileResult(pc, exception) IN
          IF r.propagates
          THEN /\ batch' = [batch EXCEPT !.stack = <<>>]
               /\ UNCHANGED <<pc, exception>>
          ELSE /\ pc' = "process_directory"
               /\ exception' = ""
               /\ batch' = [batch EXCEPT !.stack =
                               WithTop([Top EXCEPT
                                   !.stage = "loop",
                                   !.results.success = IF r.success THEN @ + 1 ELSE @,
                                   !.results.failure = IF r.success THEN @ ELSE @ + 1])]
    /\ UNCHANGED <<perl_code, config, elements, python_code, perl_body, todo, lines,
                   current_indent, indent_stack, last, post_process, hook_args, run,
                   fs, environ, calls, perl_builtins_map, generation, file_args>>

\* cli.py lines 177-179 and 190: the loop is over; the counts go to the caller
ProcessDirectoryReturn ==
    /\ pc = "process_directory"
    /\ Top.stage = "loop"
    /\ Top.items = {}
    /\ IF Len(batch.stack) = 1
       THEN /\ batch' = [batch EXCEPT !.stack = <<>>, !.returned = <<Top.results>>]
            /\ pc' = "process_directory_return"
       ELSE /\ batch' = [batch EXCEPT !.stack =
                            [SubSeq(batch.stack, 1, Len(batch.stack) - 1) EXCEPT
                                ![Len(batch.stack) - 1].results =
                                    [success |-> @.success + Top.results.success,
                                     failure |-> @.failure + Top.results.failure]]]
            /\ pc' = pc
    /\ UNCHANGED <<perl_code, config, elements, python_code, perl_body, todo, lines,
                   current_indent, indent_stack, last, post_process, hook_args, run,
                   fs, environ, calls, perl_builtins_map, generation, file_args, exception>>

\* what the file of a name may be: not there, a text, bytes that are not UTF-8
NoFile == [text |-> "", decodes |-> FALSE, there |-> FALSE]

FileStates == {NoFile} \cup {[text |-> c.text, decodes |-> c.decodes, there |-> TRUE] : c \in FileContents}

\* the tree /w/in: the files of top, notes.txt, and the directory sub with
\* the file deep.pl when deep is there
TreeOf(top, deep) ==
    LET here == {i \in DOMAIN top : top[i].there}
        paths == {PathJoin("/w/in", FileNames[i]) : i \in here} \cup {"/w/in/notes.txt"}
                 \cup (IF deep.there THEN {"/w/in/sub/deep.pl"} ELSE {}) IN
    [dirs |-> {"/w", "/w/in"} \cup (IF deep.there THEN {"/w/in/sub"} ELSE {}),
     files |-> [p \in paths |->
                   IF p = "/w/in/notes.txt" THEN [text |-> "n", decodes |-> TRUE]
                   ELSE IF p = "/w/in/sub/deep.pl"
                   THEN [text |-> deep.text, decodes |-> deep.decodes]
                   ELSE LET i == CHOOSE i \in here : PathJoin("/w/in", FileNames[i]) = p IN
                        [text |-> top[i].text, decodes |-> top[i].decodes]]]

Trees == {TreeOf(top, deep) : top \in [1..MaxFiles -> FileStates], deep \in FileStates}

\* the output directories: none given, and one outside the input directory
OutputDirs == {"", "/w/out"}

InitBatch ==
    /\ pc = "process_directory"
    /\ fs \in Trees
    /\ \E dry_run \in BOOLEAN, recursive \in BOOLEAN, output_dir \in OutputDirs :
          batch = [dry_run |-> dry_run, recursive |-> recursive,
                   stack |-> <<FrameOf("/w/in", output_dir)>>,
                   attempted |-> [p \in {} |-> 0], returned |-> <<>>]
    /\ file_args = NoFileArgs
    /\ exception = ""
    /\ NotGenerating
    /\ environ = NoEnviron
    /\ calls = <<>>
    /\ perl_builtins_map = PerlBuiltinsMap
    /\ perl_code = ""
    /\ config = EmptyConfig
    /\ elements = <<>>
    /\ python_code = ""
    /\ perl_body = ""
    /\ todo = <<>>
    /\ lines = <<>>
    /\ current_indent = 0
    /\ indent_stack = <<>>
    /\ last = NoStep
    /\ post_process = "absent"
    /\ hook_args = <<>>
    /\ run = NoRun

NextBatch ==
    \/ ProcessDirectoryEnter
    \/ ProcessSubdirectory
    \/ ProcessOtherItem
    \/ ProcessFileCall
    \/ ProcessFileReturn
    \/ ProcessDirectoryReturn
    \/ NextFile

SpecBatch == InitBatch /\ [][NextBatch]_vars

\* the Perl files the loop comes to: those of /w/in and, with recursive,
\* those of its directories
PerlFilesVisited ==
    {p \in DOMAIN fs.files :
        /\ EndsWith(p, ".pl")
        /\ \/ Dirname(p) = "/w/in"
           \/ batch.recursive /\ Dirname(Dirname(p)) = "/w/in"}

\* process_directory has returned counts that add up to the number of Perl
\* files visited, each of them was given to process_file once, the files
\* that cannot be read are the failures of a run that is not dry, and no
\* exception is left
CountsAddUp ==
    pc = "process_directory_return" =>
        LET results == batch.returned[1] IN
        /\ results.success + results.failure = Cardinality(PerlFilesVisited)
        /\ batch.attempted = [p \in PerlFilesVisited |-> 1]
        /\ results.failure =
              (IF batch.dry_run THEN 0
               ELSE Cardinality({p \in PerlFilesVisited : ~fs.files[p].decodes}))
        /\ exception = ""

\* an exception of convert_file never leaves process_file: while one is
\* raised the frame that called process_file is still on the stack
FailureIsCaught == pc = "raised" => (batch.stack # <<>> /\ Top.stage = "file")

\* with dry_run no step writes a file or makes a directory
DryRunWritesNothing == batch.dry_run => fs' = fs

\* C26: in directory processing a failure while converting one file is
\* caught and counted and processing continues with the next file: on return
\* success + failure is the number of .pl files visited, every file after a
\* failed one was still attempted, and with dry_run no output file or
\* directory is written.
FailuresCountedAndSkipped ==
    [](CountsAddUp /\ FailureIsCaught) /\ [][DryRunWritesNothing]_vars

\* C26 witness: a recursive run that is not dry has returned with a failure
\* and two successes, among them the file of the subdirectory, written
\* under /w/out/sub
FailedAndWentOn ==
    /\ pc = "process_directory_return"
    /\ batch.recursive /\ ~batch.dry_run
    /\ batch.returned[1].failure >= 1
    /\ batch.returned[1].success >= 2
    /\ "/w/out/sub/deep.py" \in DOMAIN fs.files

---------------------------------------------------------------------------
(* Calls of convert_code on one converter, one after the other.            *)

\* how many calls are made on the instance
MaxCalls == 3

\* the texts of the calls
CallTexts == {"$x =~ s/a/b/;\n", "sub f { $y = 1; }\nprint \"h\";\n"}

\* a call on an instance that still holds the text of the call before it
CallResultRemembered(text, prior) ==
    ConvertCode((IF prior # <<>> THEN prior[Len(prior)].perl_code ELSE "") \o text,
                AddExceptionHandling(config))

\* convert_code(text) on the instance, prior being the calls made on it
\* before: lines 224-233 read the text, self.config, self.perl_builtins_map
\* and CONVERSION_DATE
CallResult(text, prior) == ConvertCode(text, AddExceptionHandling(config))

InitCalls ==
    /\ pc = "constructed"
    /\ config \in ConvertConfigs
    /\ perl_builtins_map = PerlBuiltinsMap
    /\ environ = NoEnviron
    /\ calls = <<>>
    /\ fs = NoFiles
    /\ batch = NoBatch
    /\ file_args = NoFileArgs
    /\ exception = ""
    /\ NotGenerating
    /\ perl_code = ""
    /\ elements = <<>>
    /\ python_code = ""
    /\ perl_body = ""
    /\ todo = <<>>
    /\ lines = <<>>
    /\ current_indent = 0
    /\ indent_stack = <<>>
    /\ last = NoStep
    /\ post_process = "absent"
    /\ hook_args = <<>>
    /\ run = NoRun

\* a call of convert_code from its first statement to its return
ConvertCodeCall ==
    /\ pc = "constructed"
    /\ Len(calls) < MaxCalls
    /\ \E text \in CallTexts :
          /\ perl_code' = text
          /\ python_code' = CallResult(text, calls)
          /\ calls' = Append(calls, [perl_code |-> text, date |-> ConversionDate,
                                     result |-> python_code'])
    /\ UNCHANGED <<pc, config, elements, perl_body, todo, lines, current_indent,
                   indent_stack, last, post_process, hook_args, run, fs, batch, environ,
                   perl_builtins_map, generation, file_args, exception>>

\* the caller sets or removes CONVERSION_DATE between two calls
SetConversionDate ==
    /\ pc = "constructed"
    /\ \E e \in {NoEnviron, ("CONVERSION_DATE" :> "2024-01-01 10:00:00")} :
          e # environ /\ environ' = e
    /\ UNCHANGED <<pc, perl_code, config, elements, python_code, perl_body, todo, lines,
                   current_indent, indent_stack, last, post_process, hook_args, run, fs,
                   batch, calls, perl_builtins_map, generation, file_args, exception>>

NextCalls ==
    \/ ConvertCodeCall
    \/ SetConversionDate

SpecCalls == InitCalls /\ [][NextCalls]_vars

\* two calls with the same text and the same date have the same result, and
\* the builtins map is the one of the construction
SameInputsSameText ==
    /\ \A i, j \in 1..Len(calls) :
          (calls[i].perl_code = calls[j].perl_code /\ calls[i].date = calls[j].date)
              => calls[i].result = calls[j].result
    /\ perl_builtins_map = PerlBuiltinsMap

\* no step changes the configuration or the builtins map
InstanceUnchanged == config' = config /\ perl_builtins_map' = perl_builtins_map

---------------------------------------------------------------------------
(* convert_code up to the end of the assembly, the generation followed     *)
(* body by body and the rewriter line by line, on texts with unbalanced    *)
(* braces, lines no rule matches and integers of many digits.              *)

\* how many pieces a text is built from
MaxTotalPieces == 3

\* the limit of the interpreter on the digits of int(s), 4300 by default,
\* brought down to the size of the texts checked here
MaxStrDigits == 3

RECURSIVE Nines(_)
\* '9' * n
Nines(n) == IF n = 0 THEN "" ELSE "9" \o Nines(n - 1)

\* the pieces: a subroutine left open, a lone closing brace, a line no rule
\* matches, a range loop, a range loop whose end plus one has one digit more
\* than the limit, and a parameter index of one digit more than the limit
TotalPieces ==
    {"sub f {\n", "}\n", "zzz;\n", "for my $i (1..9) {\n",
     "for my $i (1.." \o Nines(MaxStrDigits) \o ") {\n",
     "sub g { my $a = $_[" \o Nines(MaxStrDigits + 1) \o "]; }\n"}

RECURSIVE TotalTextsOfLen(_)
TotalTextsOfLen(n) ==
    IF n = 0 THEN {""} ELSE {t \o g : t \in TotalTextsOfLen(n - 1), g \in TotalPieces}

TotalTexts == UNION {TotalTextsOfLen(n) : n \in 0..MaxTotalPieces}

IsSubroutine(el) == el.type = "subroutine"

IsMainScript(el) == el.type = "main_script"

\* lines 410-476: the elements whose body is given to the rewriter, in the
\* order of the calls: the subroutines, then the first main script
ToConvert(els) ==
    SelectSeq(els, IsSubroutine)
    \o (IF SelectSeq(els, IsMainScript) = <<>> THEN <<>>
        ELSE <<SelectSeq(els, IsMainScript)[1]>>)

\* lines 441-445: the body of a subroutine with the parameters param_names
WithArgs(param_names, body) == IF Len(param_names) > 0 THEN ReplaceArgs(body) ELSE body

\* lines 429-432: param_assignments, sorted
IndexedPairs(el) == SortByIndex(IndexPairs(el.body, FindIter(IndexAssignRe, el.body)))

\* lines 420-445: element['body'] as _generate_python_code gives it to
\* _convert_perl_body_to_python at lines 453 and 475
BodyToConvert(el) ==
    IF IsMainScript(el) THEN el.body
    ELSE IF Search(TupleAssignRe, el.body).ok
    THEN WithArgs(ParamNames(Split(Group(el.body, Search(TupleAssignRe, el.body), 1), ",")),
                  Sub(TupleAssignRemoveRe, <<>>, el.body))
    ELSE WithArgs([i \in 1..Len(IndexedPairs(el)) |-> IndexedPairs(el)[i].name],
                  RemoveIndexAssigns(el.body, IndexedPairs(el)))

\* line 432: the key int(x[1]) of the sort, on an index of too many digits
SortRaises(el) ==
    /\ IsSubroutine(el)
    /\ ~Search(TupleAssignRe, el.body).ok
    /\ \E i \in 1..Len(IndexedPairs(el)) : IntRaises(IndexedPairs(el)[i].idx)

InitTotal ==
    /\ pc = "convert_preprocess"
    /\ perl_code \in TotalTexts
    /\ config = EmptyConfig
    /\ elements = <<>>
    /\ python_code = ""
    /\ perl_body = ""
    /\ todo = <<>>
    /\ lines = <<>>
    /\ current_indent = 0
    /\ indent_stack = <<>>
    /\ last = NoStep
    /\ post_process = "absent"
    /\ hook_args = <<>>
    /\ run = NoRun
    /\ fs = NoFiles
    /\ batch = NoBatch
    /\ environ = NoEnviron
    /\ calls = <<>>
    /\ perl_builtins_map = PerlBuiltinsMap
    /\ file_args = NoFileArgs
    /\ exception = ""
    /\ int_max_str_digits \in {0, MaxStrDigits}
    /\ generated = 0

\* lines 411-453 and 466-475: the next element; its body goes to the rewriter
\* unless the sort of its parameter indices raises
GenerateElement ==
    /\ pc = "convert_generate"
    /\ generated < Len(ToConvert(elements))
    /\ generated' = generated + 1
    /\ IF SortRaises(ToConvert(elements)[generated + 1])
       THEN pc' = "raised" /\ exception' = "ValueError" /\ UNCHANGED perl_body
       ELSE /\ pc' = "rewrite_begin"
            /\ perl_body' = BodyToConvert(ToConvert(elements)[generated + 1])
            /\ UNCHANGED exception
    /\ UNCHANGED <<perl_code, config, elements, python_code, todo, lines, current_indent,
                   indent_stack, last, post_process, hook_args, run, fs, batch, environ,
                   calls, perl_builtins_map, file_args, int_max_str_digits>>

\* lines 455-461 and 477-481: the lines of the body are appended
GenerateAppend ==
    /\ pc = "rewrite_done"
    /\ pc' = "convert_generate"
    /\ UNCHANGED <<perl_code, config, elements, python_code, perl_body, todo, lines,
                   current_indent, indent_stack, last, post_process, hook_args, run, outside>>

\* line 486, and line 230 of convert_code, when every body is converted
GenerateReturn ==
    /\ generated = Len(ToConvert(elements))
    /\ ConvertGenerate

NextTotal ==
    \/ ConvertPreprocess
    \/ ConvertParse
    \/ GenerateElement
    \/ RewriteBegin
    \/ RewriteStep
    \/ RewriteReturn
    \/ GenerateAppend
    \/ GenerateReturn

SpecTotal == InitTotal /\ [][NextTotal]_vars

\* no stage has left the call with an exception
NeverRaises == pc # "raised"

\* a line that no rule before the pipeline handles gives one line at the
\* indentation in force and leaves the indentation alone
UnmatchedPassesThrough ==
    last.rule = "pipeline" =>
        /\ Len(last.out) = 1
        /\ StartsWithAt(last.out[1], 0, Spaces(last.indent))
        /\ last.pushed = 0
        /\ last.popped = 0

\* the steps of the rewriter that are left on the body it was given
RewriterStepsLeft ==
    IF pc = "rewrite_begin" THEN Len(perl_body) + 4
    ELSE IF pc = "rewrite_loop" THEN Len(todo) + 2
    ELSE IF pc = "rewrite_done" THEN 1
    ELSE 0

\* a bound on the steps that are left of the call: the stages to come, the
\* bodies to come with a rewriting of each, and the rewriting in progress
StepsLeft ==
    IF pc = "raised" \/ pc = "convert_postprocess" THEN 0
    ELSE IF pc = "convert_preprocess" THEN 2 + (Len(perl_code) + 7) * (Len(perl_code) + 7)
    ELSE IF pc = "convert_parse" THEN 1 + (Len(perl_code) + 6) * (Len(perl_code) + 6)
    ELSE 1 + (Len(ToConvert(elements)) - generated) * (Len(perl_code) + 6)
         + RewriterStepsLeft

\* every step of the call brings it nearer to its end
Terminates == StepsLeft' < StepsLeft

\* C28: for every input text, also one with unbalanced braces or with lines
\* that match no rule, preprocessing, extraction, rewriting and assembly end
\* without raising, and a line that matches no rule is emitted without
\* structural rewriting
TotalOnEveryText ==
    /\ [](NeverRaises /\ UnmatchedPassesThrough)
    /\ [][Terminates]_vars

---------------------------------------------------------------------------
(* convert_code on texts with subroutines and main scripts whose body      *)
(* holds no statement.                                                     *)

\* how many pieces a text is built from
MaxEmptyPieces == 2

\* the pieces: subroutines with nothing, a blank, a line break or a comment
\* between their braces, a subroutine with a statement, a comment, an empty
\* line and a statement
EmptyPieces ==
    {"sub f {}", "sub f { }\n", "sub f {\n}\n", "sub g { # c\n}\n", "sub h { $y = 1; }\n",
     "# c\n", "\n", "$y = 1;\n"}

RECURSIVE EmptyTextsOfLen(_)
EmptyTextsOfLen(n) ==
    IF n = 0 THEN {""} ELSE {t \o g : t \in EmptyTextsOfLen(n - 1), g \in EmptyPieces}

EmptyTexts == UNION {EmptyTextsOfLen(n) : n \in 0..MaxEmptyPieces}

InitEmpty ==
    /\ pc = "convert_preprocess"
    /\ perl_code \in EmptyTexts
    /\ config \in ConvertConfigs
    /\ elements = <<>>
    /\ python_code = ""
    /\ perl_body = ""
    /\ todo = <<>>
    /\ lines = <<>>
    /\ current_indent = 0
    /\ indent_stack = <<>>
    /\ last = NoStep
    /\ post_process = "absent"
    /\ hook_args = <<>>
    /\ run = NoRun
    /\ NothingOutside

SpecEmpty == InitEmpty /\ [][NextConvert]_vars

\* the rewriting of the body gives no statement
YieldsNoStatement(body) ==
    \A k \in 1..Len(BasicConversion(body)) : ~IsStatement(BasicConversion(body)[k])

\* C29: for a subroutine or main script whose body yields no statements (for
\* example sub f {}), under either setting of add_exception_handling, the
\* block emitted under the def line or the entry guard is the single line
\* pass, indented
EmptyBodyIsPass ==
    pc = "converted" =>
        \A i \in 1..Len(elements) :
            (/\ elements[i].type \in {"subroutine", "main_script"}
             /\ YieldsNoStatement(elements[i].body))
            => BlockIs(Split(python_code, "\n"), HeadOf(elements[i]), <<"pass">>)

---------------------------------------------------------------------------
(* The line rewriter on the openers of if, while and until blocks.         *)

\* how many lines a body has at most: an opener and the lines after it
MaxConditionLines == 2

ConditionKeywords == {"if", "while", "until"}

\* names of variables; the last three hold the letters of a string operator
ConditionNames == {"count", "value", "age", "length", "element"}

\* the comparison operators of Perl, each with the operator the claim gives
\* for it in Python
ComparisonOperators ==
    ("<" :> "<") @@ ("<=" :> "<=") @@ (">" :> ">") @@ ("==" :> "==") @@ ("!=" :> "!=")
    @@ ("eq" :> "==") @@ ("ne" :> "!=") @@ ("lt" :> "<") @@ ("gt" :> ">")
    @@ ("le" :> "<=") @@ ("ge" :> ">=")

\* what a variable is compared with, each with its text without the sigil
ComparedWith == ("3" :> "3") @@ ("$y" :> "y")

\* conditions with a logical operator, each with the condition the claim gives
LogicalConditions ==
    {[perl |-> "$x && $y", python |-> "x and y"], [perl |-> "$x || $y", python |-> "x or y"],
     [perl |-> "!$x", python |-> "not x"]}

\* the conditions: a variable compared with a value, and the logical ones
Conditions ==
    {[perl |-> "$" \o n \o " " \o op \o " " \o v,
      python |-> n \o " " \o ComparisonOperators[op] \o " " \o ComparedWith[v]] :
        n \in ConditionNames, op \in DOMAIN ComparisonOperators, v \in DOMAIN ComparedWith}
    \cup LogicalConditions

\* the opener of a block of the keyword kw on the condition
OpenerLine(kw, condition) == kw \o " (" \o condition \o ") {"

ConditionLines == {OpenerLine(kw, c.perl) : kw \in ConditionKeywords, c \in Conditions}

\* the lines after an opener: a statement, and the end of the block
LinesAfterOpener == {"  $y = 1;", "}"}

RECURSIVE ConditionBodiesOfLen(_)
ConditionBodiesOfLen(n) ==
    IF n = 1 THEN ConditionLines
    ELSE {b \o "\n" \o l : b \in ConditionBodiesOfLen(n - 1), l \in LinesAfterOpener}

ConditionBodies == UNION {ConditionBodiesOfLen(n) : n \in 1..MaxConditionLines}

InitConditions ==
    /\ pc = "rewrite_begin"
    /\ perl_body \in ConditionBodies
    /\ perl_code = ""
    /\ elements = <<>>
    /\ config = EmptyConfig
    /\ python_code = ""
    /\ todo = <<>>
    /\ lines = <<>>
    /\ current_indent = 0
    /\ indent_stack = <<>>
    /\ last = NoStep
    /\ post_process = "absent"
    /\ hook_args = <<>>
    /\ run = NoRun
    /\ NothingOutside

SpecConditions == InitConditions /\ [][NextRewrite]_vars

\* the line the claim gives for the opener of kw on the translated condition
ClaimedOpener(kw, condition) ==
    IF kw = "until" THEN "while not (" \o condition \o "):" ELSE kw \o " " \o condition \o ":"

\* the text s with every run of blanks brought down to one blank, and none
\* after an opening parenthesis
Squeeze(s) == Replace(Join(SelectSeq(Split(s, " "), LAMBDA w : w # ""), " "), "( ", "(")

\* C30: for an if, while or until opener the emitted condition is the input
\* condition with &&, ||, ! given as and, or, not, the operators eq, ne, lt,
\* gt, le, ge given as ==, !=, <, >, <=, >=, and the sigils removed; names
\* that only hold the letters of such an operator and the numeric operators,
\* != among them, are unchanged (blanks are compared up to their number)
ConditionConverted ==
    \A kw \in ConditionKeywords, c \in Conditions :
        (last.rule # "none" /\ last.line = OpenerLine(kw, c.perl))
            => /\ Len(last.out) = 1
               /\ Squeeze(last.out[1]) = Squeeze(ClaimedOpener(kw, c.python))
====
